---- MODULE Spec2Model ----
(***************************************************************************)
(* Model of the Databento helper scripts:                                  *)
(*   src/databento/scripts/session_filter.py  (SessionFilter)              *)
(*   src/databento/scripts/validate_data.py   (DataValidator)              *)
(*   src/databento/scripts/fetch_ohlcv.py     (DatabentoPHTLCVFetcher)     *)
(*                                                                         *)
(* Representation of values.  A record of market data is a function from   *)
(* the field names it carries to values.  Python integers are unbounded    *)
(* and nanosecond timestamps do not fit the model checker's integers, so   *)
(* an integer is carried in one of two encodings:                          *)
(*   Num(v)      a small integer v (prices, sizes, volumes)                *)
(*   Ns(s, n)    the integer s * 1_000_000_000 + n with 0 <= n < 10^9      *)
(*               (nanosecond timestamps)                                   *)
(* None is JSON null.  A field that is absent is outside the DOMAIN.       *)
(* A Python float is a double, carried exactly: sign, odd significand and  *)
(* exponent of 2.                                                          *)
(***************************************************************************)
EXTENDS Integers, Sequences, FiniteSets, TLC

VARIABLES schema, max_gap_seconds, price_outlier_std, issues,
          calls, op, arg, cfg, ret, issuesBefore,
          pc, attempt, exc, log,
          tz, libm

vars == <<schema, max_gap_seconds, price_outlier_std, issues,
          calls, op, arg, cfg, ret, issuesBefore,
          pc, attempt, exc, log,
          tz, libm>>

envVars == <<tz, libm>>

fetchVars == <<pc, attempt, exc, log>>

validatorVars == <<schema, max_gap_seconds, price_outlier_std, issues, calls, issuesBefore>>

(***************************************************************************)
(* Values                                                                  *)
(***************************************************************************)
NS_PER_SECOND == 1000000000

None == [k |-> "none"]

Num(v) == [k |-> "num", v |-> v]

Ns(s, n) == [k |-> "ns", sec |-> s, nano |-> n]

\* Python truthiness of a field value: None and the integer 0 are falsy.
Truthy(x) ==
    CASE x.k = "none" -> FALSE
      [] x.k = "num"  -> x.v # 0
      [] x.k = "ns"   -> x.sec # 0 \/ x.nano # 0

\* int(ts): a timestamp as the pair (seconds, nanoseconds) of its value,
\* sec * 10^9 + nano with 0 <= nano < 10^9 (sec is negative for a negative
\* value).
ToInt(x) == IF x.k = "num"
            THEN [sec |-> x.v \div NS_PER_SECOND, nano |-> x.v % NS_PER_SECOND]
            ELSE [sec |-> x.sec, nano |-> x.nano]

\* record.get(name): None when the field is absent.
Get(record, name) == IF name \in DOMAIN record THEN record[name] ELSE None

\* a bug that reads ts_event alone
TsOf_event_only(record) == Get(record, "ts_event")

\* record.get("ts_event") or record.get("ts_recv") or record.get("timestamp")
TsOf(record) ==
    IF Truthy(Get(record, "ts_event")) THEN Get(record, "ts_event")
    ELSE IF Truthy(Get(record, "ts_recv")) THEN Get(record, "ts_recv")
    ELSE Get(record, "timestamp")

\* Order on nanosecond integers.
NsLess(a, b) == a.sec < b.sec \/ (a.sec = b.sec /\ a.nano < b.nano)

\* b - a for nanosecond integers, normalised to 0 <= nano < 10^9.
NsDiff(b, a) ==
    IF b.nano >= a.nano
    THEN [sec |-> b.sec - a.sec, nano |-> b.nano - a.nano]
    ELSE [sec |-> b.sec - a.sec - 1, nano |-> b.nano + NS_PER_SECOND - a.nano]

(***************************************************************************)
(* datetime.fromtimestamp(timestamp_ns / 1_000_000_000, tz=utc)            *)
(* The quotient is a double: the nearest number with 53 significant bits,  *)
(* so its fraction is a multiple of 2^-g, where g depends on the size of   *)
(* the quotient (g = 22, a step of 238 ns, for the timestamps of today).   *)
(* fromtimestamp multiplies the fraction by 10^6, again as a double, and   *)
(* rounds the product to an integer, a half going to the even neighbour.   *)
(* The operators below compute the result in integers.  With               *)
(* nano = 1000 * j + t the microsecond is j or j + 1, decided by the side  *)
(* of j + 1/2 on which the product falls.                                  *)
(***************************************************************************)
\* 10^9 = 2^9 * 5^9
POW5_9 == 1953125

\* floor(log2(x)) for 1 <= x < 2^31
ILog2(x) == CHOOSE k \in 0..30 : x \div (2 ^ k) = 1

Pow2(n) == 2 ^ n

\* the least i >= 1 with nano * 2^i >= 10^9, for 1 <= nano < 10^9
LeadingShift(nano) ==
    CHOOSE i \in 1..30 :
        /\ nano > (NS_PER_SECOND - 1) \div Pow2(i)
        /\ i > 1 => nano <= (NS_PER_SECOND - 1) \div Pow2(i - 1)

\* g: the fraction of the double nearest to sec + nano / 10^9 is a
\* multiple of 2^-g
GridBits(sec, nano) ==
    IF sec >= 1 THEN 52 - ILog2(sec) ELSE 52 + LeadingShift(nano)

\* (r * 2^10) mod 5^9 if go, else r
Shift10Mod(go, r) == IF go THEN (r * 1024) % POW5_9 ELSE r

\* (r * 2^n) mod 5^9 for n < 80, ten bits at a time
ShiftMod(r, n) ==
    (Shift10Mod(n >= 70, Shift10Mod(n >= 60, Shift10Mod(n >= 50,
        Shift10Mod(n >= 40, Shift10Mod(n >= 30, Shift10Mod(n >= 20,
            Shift10Mod(n >= 10, r))))))) * Pow2(n % 10)) % POW5_9

\* the signed distance to the nearest multiple of 5^9 of a number with
\* remainder r, 0 - r or 5^9 - r
ToNearest(r) == IF r = 0 THEN 0 ELSE IF 2 * r < POW5_9 THEN 0 - r ELSE POW5_9 - r

\* the error of the double's fraction, in units of 2^-g / 5^9: the fraction
\* is m / 2^g with m the integer nearest to nano * 2^g / 10^9
GridError(nano, g) == ToNearest(ShiftMod(nano % POW5_9, g - 9))

Magnitude(x) == IF x < 0 THEN 0 - x ELSE x

\* is abs at most 125 * 2^n, for an integer abs >= 0: from n = 25 on the
\* bound is above every integer of the model, and below n = -6 it is
\* below 1
WithinHalfStep(abs, n) ==
    IF n >= 25 THEN TRUE
    ELSE IF n >= 0 THEN abs <= 125 * Pow2(n)
    ELSE IF n >= 0 - 6 THEN abs <= 125 \div Pow2(0 - n)
    ELSE abs = 0

\* the product fraction * 10^6 is the double j + 1/2 itself: its distance
\* from j + 1/2, err / (125 * 2^(g - 6)), is at most half a step of the
\* doubles on that side of j + 1/2
ProductIsHalf(j, g, err) ==
    WithinHalfStep(Magnitude(err),
                   g + (IF j >= 1 THEN ILog2(j) ELSE 0 - 1) - 59
                     - (IF j = 0 /\ err < 0 THEN 1 ELSE 0))

\* the side of j + 1/2 on which the fraction of the double falls, for
\* nano = 1000 * j + t: negative below, positive above
Side(t, g, err) ==
    IF t # 500
    THEN (t - 500) * Pow2(IF g - 9 < 20 THEN g - 9 ELSE 20) + err
    ELSE err

\* round half to even
RoundHalfEven(j, side, half) ==
    IF side = 0 \/ half THEN (IF j % 2 = 0 THEN j ELSE j + 1)
    ELSE IF side > 0 THEN j + 1
    ELSE j

MicrosecondsOnGrid(j, t, g, err) ==
    RoundHalfEven(j, Side(t, g, err), t = 500 /\ ProductIsHalf(j, g, err))

\* the microsecond count for the instant sec + nano / 10^9 >= 0
Microseconds(sec, nano) ==
    IF sec = 0 /\ nano = 0 THEN 0
    ELSE MicrosecondsOnGrid(nano \div 1000, nano % 1000, GridBits(sec, nano),
                            GridError(nano, GridBits(sec, nano)))

\* a count of 10^6 microseconds is the next second
Carry(sec, us) ==
    IF us >= 1000000
    THEN [sec |-> sec + 1, micro |-> 0]
    ELSE [sec |-> sec, micro |-> us]

\* for an instant >= 0
RoundToMicro(sec, nano) == Carry(sec, Microseconds(sec, nano))

\* the datetime before the epoch that is as far from it as dt is after it
Mirror(dt) ==
    IF dt.micro = 0
    THEN [sec |-> 0 - dt.sec, micro |-> 0]
    ELSE [sec |-> 0 - dt.sec - 1, micro |-> 1000000 - dt.micro]

\* a negative quotient is rounded as its absolute value is
FromTimestamp(ts) ==
    IF ts.sec >= 0 THEN RoundToMicro(ts.sec, ts.nano)
    ELSE IF ts.nano = 0 THEN Mirror(RoundToMicro(0 - ts.sec, 0))
    ELSE Mirror(RoundToMicro(0 - ts.sec - 1, NS_PER_SECOND - ts.nano))

ET_OFFSET_HOURS == 5

\* dt + timedelta(hours=-5)
ToET(dt) == [sec |-> dt.sec - ET_OFFSET_HOURS * 3600, micro |-> dt.micro]

\* dt.hour
HourOf(dt) == (dt.sec \div 3600) % 24

\* seconds since midnight of dt's own calendar day
SecondOfDay(dt) == dt.sec % 86400

\* Outcome of a call: a returned value or a raised exception.
Return(v) == [kind |-> "return", value |-> v]

Raise(e) == [kind |-> "raise", exc |-> e]

(***************************************************************************)
(* session_filter.py                                                       *)
(***************************************************************************)
\* class TradingSession(Enum): (name, start hour, end hour) in ET
ASIAN == <<"Asian", 18, 2>>

LONDON == <<"London", 2, 8>>

NY == <<"NY", 8, 16>>

TradingSession == <<ASIAN, LONDON, NY>>

\* SessionFilter.__init__: self.sessions, in insertion order
SessionNames == <<"Asian", "London", "NY">>

sessions == [n \in {"Asian", "London", "NY"} |->
                CASE n = "Asian" -> ASIAN [] n = "London" -> LONDON [] n = "NY" -> NY]

\* hour of dt_et in is_in_session
ETHour(timestamp_ns) == HourOf(ToET(FromTimestamp(timestamp_ns)))

\* a bug that makes the end hour inclusive
InWindow_end_inclusive(hour, start_hour, end_hour) ==
    IF start_hour < end_hour
    THEN start_hour <= hour /\ hour <= end_hour
    ELSE hour >= start_hour \/ hour <= end_hour

InWindow(hour, start_hour, end_hour) ==
    IF start_hour < end_hour
    THEN start_hour <= hour /\ hour < end_hour
    ELSE hour >= start_hour \/ hour < end_hour

is_in_session(timestamp_ns, session) ==
    InWindow(ETHour(timestamp_ns), session[2], session[3])

\* An ISO text that names the instant ts with the UTC offset of `offset`
\* seconds: "2023-11-14T19:00:00-05:00" is IsoText of 2023-11-15 00:00 UTC
\* and -18000.  "Z" is the offset 0, and a text without offset reads as its
\* fields stand, as one with the offset 0 does.
IsoText(ts, offset) == [k |-> "iso", instant |-> ts, utcoffset |-> offset]

\* a text that is no ISO timestamp; "" is the empty text
Text(chars) == [k |-> "text", text |-> chars]

\* get_current_session(timestamp), with now the instant that
\* datetime.now(timezone.utc) gives when it is called.  None and "" are
\* falsy and take the clock; fromisoformat raises ValueError for a text it
\* cannot read, and gives the fields of an ISO text as written, the hour
\* in the text's own offset (it drops what follows the microseconds).
get_current_session(timestamp, now) ==
    IF timestamp.k = "text" /\ timestamp.text # ""
    THEN Raise("ValueError")
    ELSE LET hour == IF timestamp.k = "iso"
                     THEN ((timestamp.instant.sec + timestamp.utcoffset) \div 3600) % 24
                     ELSE (now.sec \div 3600) % 24
             et_hour == (hour - 5) % 24
         IN  IF 18 <= et_hour \/ et_hour < 2 THEN Return("Asian")
             ELSE IF 2 <= et_hour /\ et_hour < 8 THEN Return("London")
             ELSE Return("NY")

\* the inner loop of filter_by_session: is the record in any requested session
InAnySession(ts, session_enums) ==
    \E i \in 1..Len(session_enums) : is_in_session(ts, session_enums[i])

\* the records the loop of filter_by_session keeps
KeepBySession(data, session_enums) ==
    SelectSeq(data, LAMBDA record :
        /\ Truthy(TsOf(record))
        /\ InAnySession(ToInt(TsOf(record)), session_enums))

\* a bug that looks a name up in self.sessions only when a record is tested
\* against it
filter_by_session_lazy_lookup(data, names) ==
    LET Known(i) == names[i] \in DOMAIN sessions
        Stops(record, i) ==
            \/ ~Known(i)
            \/ is_in_session(ToInt(TsOf(record)), sessions[names[i]])
        FirstStop(record) ==
            IF \E i \in 1..Len(names) : Stops(record, i)
            THEN CHOOSE i \in 1..Len(names) :
                     Stops(record, i) /\ \A j \in 1..(i - 1) : ~Stops(record, j)
            ELSE 0
        tested == SelectSeq(data, LAMBDA record : Truthy(TsOf(record)))
    IN  IF \E k \in 1..Len(tested) :
               FirstStop(tested[k]) # 0 /\ ~Known(FirstStop(tested[k]))
        THEN Raise("KeyError")
        ELSE IF Len(data) = 0 THEN Raise("ZeroDivisionError")
        ELSE Return(SelectSeq(tested, LAMBDA record : FirstStop(record) # 0))

filter_by_session(data, names) ==
    IF \E i \in 1..Len(names) : names[i] \notin DOMAIN sessions
    THEN Raise("KeyError")
    ELSE LET session_enums == [i \in 1..Len(names) |-> sessions[names[i]]]
             filtered == KeepBySession(data, session_enums)
         IN  IF Len(data) = 0 THEN Raise("ZeroDivisionError")
             ELSE Return(filtered)

\* main, the --session branch: the names are validated, then the filter runs
VALID_SESSIONS == {"Asian", "London", "NY"}

main_filter_by_session(data, names) ==
    IF \E i \in 1..Len(names) : names[i] \notin VALID_SESSIONS
    THEN Raise("SystemExit")
    ELSE filter_by_session(data, names)

\* Session transition times (in ET)
transitions == <<2, 8, 16, 18>>

\* timedelta(minutes=minutes_before + minutes_after).total_seconds()
TransitionWindow(minutes_before, minutes_after) == (minutes_before + minutes_after) * 60

\* abs((dt_et - dt_et.replace(hour=h, minute=0, second=0, microsecond=0))
\*     .total_seconds()) <= window, on whole seconds and microseconds
NearTransition(dt_et, transition_hour, window) ==
    LET tod == SecondOfDay(dt_et)
        t == transition_hour * 3600
    IN  /\ tod >= t - window
        /\ \/ tod < t + window
           \/ tod = t + window /\ dt_et.micro = 0

\* the records the loop of filter_session_transitions keeps
KeepNearTransitions(data, window) ==
    SelectSeq(data, LAMBDA record :
        /\ Truthy(TsOf(record))
        /\ \E i \in 1..Len(transitions) :
               NearTransition(ToET(FromTimestamp(ToInt(TsOf(record)))),
                              transitions[i], window))

filter_session_transitions(data, minutes_before, minutes_after) ==
    Return(KeepNearTransitions(data, TransitionWindow(minutes_before, minutes_after)))

(***************************************************************************)
(* Helpers for Python lists and dicts                                      *)
(***************************************************************************)
\* seq[:n]
Take(seq, n) == IF Len(seq) <= n THEN seq ELSE SubSeq(seq, 1, n)

\* number of occurrences of x in seq
Count(seq, x) == Cardinality({i \in 1..Len(seq) : seq[i] = x})

\* the keys of a dict filled by walking seq: the distinct elements of seq
\* in the order of their first occurrence (dicts keep insertion order)
InsertionOrder(seq) ==
    SelectSeq([i \in 1..Len(seq) |-> [at |-> i, key |-> seq[i]]],
              LAMBDA e : \A j \in 1..(e.at - 1) : seq[j] # e.key)

\* sorted(timestamps): stable insertion into an ascending list
RECURSIVE InsertSorted(_, _)
InsertSorted(x, seq) ==
    IF seq = <<>> THEN <<x>>
    ELSE IF NsLess(x, Head(seq)) THEN <<x>> \o seq
         ELSE <<Head(seq)>> \o InsertSorted(x, Tail(seq))

RECURSIVE sorted(_)
sorted(seq) ==
    IF seq = <<>> THEN <<>>
    ELSE InsertSorted(seq[Len(seq)], sorted(SubSeq(seq, 1, Len(seq) - 1)))

\* needle in hay, for strings held as sequences of characters
Contains(needle, hay) ==
    \E i \in 0..(Len(hay) - Len(needle)) :
        \A j \in 1..Len(needle) : hay[i + j] = needle[j]

\* the set of elements of a sequence
Range(seq) == {seq[i] : i \in 1..Len(seq)}

Abs(x) == IF x < 0 THEN -x ELSE x

(***************************************************************************)
(* Natural numbers of any size, for the 53-bit significands of the floats  *)
(* and for integers above 2^31: the sequence of the digits in base 2^15,   *)
(* lowest digit first, without a zero as highest digit (0 is << >>).       *)
(***************************************************************************)
DIGIT == 32768

\* the one element of a set of one element: Only({F(v) : v \in {e}}) is
\* F(e) with e evaluated once
Only(S) == CHOOSE v \in S : TRUE

Digit(a, i) == IF i <= Len(a) THEN a[i] ELSE 0

\* the place of the highest digit that is not zero, 0 if there is none
TopDigit(a) ==
    IF \A i \in 1..Len(a) : a[i] = 0 THEN 0
    ELSE CHOOSE n \in 1..Len(a) : a[n] # 0 /\ \A i \in (n + 1)..Len(a) : a[i] = 0

Trim(a) == SubSeq(a, 1, TopDigit(a))

\* the digits of n, 0 <= n < 2^31
Digits(n) == Trim(<<n % DIGIT, (n \div DIGIT) % DIGIT, n \div (DIGIT * DIGIT)>>)

\* a < b
NatLess(a, b) ==
    \/ Len(a) < Len(b)
    \/ /\ Len(a) = Len(b)
       /\ \E i \in 1..Len(a) : a[i] < b[i] /\ \A j \in (i + 1)..Len(a) : a[j] = b[j]

\* the digits of a + b from place i on, with the carry from the places below
RECURSIVE AddFrom(_, _, _, _)
AddFrom(a, b, i, carry) ==
    IF i > Len(a) /\ i > Len(b)
    THEN (IF carry = 0 THEN << >> ELSE <<carry>>)
    ELSE <<(Digit(a, i) + Digit(b, i) + carry) % DIGIT>>
             \o AddFrom(a, b, i + 1, (Digit(a, i) + Digit(b, i) + carry) \div DIGIT)

NatAdd(a, b) == AddFrom(a, b, 1, 0)

\* the digits of a - b from place i on, for a >= b
RECURSIVE SubFrom(_, _, _, _)
SubFrom(a, b, i, borrow) ==
    IF i > Len(a) THEN << >>
    ELSE <<(a[i] - Digit(b, i) - borrow) % DIGIT>>
             \o SubFrom(a, b, i + 1, IF a[i] - Digit(b, i) - borrow < 0 THEN 1 ELSE 0)

NatSub(a, b) == Trim(SubFrom(a, b, 1, 0))

\* the digits of a * d from place i on, for one digit d
RECURSIVE TimesFrom(_, _, _, _)
TimesFrom(a, d, i, carry) ==
    IF i > Len(a)
    THEN (IF carry = 0 THEN << >> ELSE <<carry>>)
    ELSE <<(a[i] * d + carry) % DIGIT>>
             \o TimesFrom(a, d, i + 1, (a[i] * d + carry) \div DIGIT)

NatTimesDigit(a, d) == IF d = 0 THEN << >> ELSE TimesFrom(a, d, 1, 0)

\* a * (2^15)^n
ShiftDigits(a, n) == IF a = << >> THEN a ELSE [i \in 1..n |-> 0] \o a

\* a * (the digits of b from place i on)
RECURSIVE TimesRows(_, _, _)
TimesRows(a, b, i) ==
    IF i > Len(b) THEN << >>
    ELSE NatAdd(NatTimesDigit(a, b[i]), ShiftDigits(TimesRows(a, b, i + 1), 1))

NatTimes(a, b) == TimesRows(a, b, 1)

\* a * 2^n
NatShiftLeft(a, n) == ShiftDigits(NatTimesDigit(a, 2 ^ (n % 15)), n \div 15)

\* the remainder of (the digits of a from place i up) divided by the digit
\* d >= 1, given the remainder rem of the places above
RECURSIVE RemFrom(_, _, _, _)
RemFrom(a, d, i, rem) ==
    IF i = 0 THEN rem ELSE RemFrom(a, d, i - 1, (rem * DIGIT + a[i]) % d)

NatModDigit(a, d) == RemFrom(a, d, Len(a), 0)

\* floor(a / d) for a digit d >= 1: long division from the highest digit.
\* The digit at place i is computed from the remainder of the places above.
NatDivDigit(a, d) ==
    Trim([i \in 1..Len(a) |->
             (NatModDigit(SubSeq(a, i + 1, Len(a)), d) * DIGIT + a[i]) \div d])

\* floor(a / 2^n)
NatShiftRight(a, n) ==
    IF n \div 15 >= Len(a) THEN << >>
    ELSE NatDivDigit(SubSeq(a, n \div 15 + 1, Len(a)), 2 ^ (n % 15))

\* floor(a / (ds[1] * ... * ds[n])), one digit of ds after the other
RECURSIVE NatDivDigits(_, _)
NatDivDigits(a, ds) ==
    IF ds = << >> THEN a ELSE NatDivDigits(NatDivDigit(a, Head(ds)), Tail(ds))

\* the number of binary digits of the digit d
DigitBits(d) == CHOOSE k \in 0..15 : d < 2 ^ k /\ (k = 0 \/ d >= 2 ^ (k - 1))

\* the number of binary digits of a
NatBits(a) == IF a = << >> THEN 0 ELSE 15 * (Len(a) - 1) + DigitBits(a[Len(a)])

\* the number of zero binary digits at the low end of a # 0
LowZeros(a) ==
    Only({15 * (n - 1) + (CHOOSE k \in 0..14 : a[n] % (2 ^ (k + 1)) # 0 /\ a[n] % (2 ^ k) = 0) :
          n \in {m \in 1..Len(a) : a[m] # 0 /\ \A i \in 1..(m - 1) : a[i] = 0}})

\* the largest r' >= r with r'^2 <= n that differs from r in the binary
\* places hi down to lo only (r has zeros there): the square root, one
\* binary digit after the other
RECURSIVE SqrtBits(_, _, _, _)
SqrtBits(n, r, hi, lo) ==
    IF hi = lo
    THEN Only({IF NatLess(n, NatTimes(c, c)) THEN r ELSE c :
               c \in {NatAdd(r, NatShiftLeft(<<1>>, hi))}})
    ELSE Only({SqrtBits(n, upper, (hi + lo) \div 2, lo) :
               upper \in {SqrtBits(n, r, hi, (hi + lo) \div 2 + 1)}})

\* floor(sqrt(n)) for n < 2^(2 * bits)
NatSqrt(n, bits) == SqrtBits(n, << >>, bits - 1, 0)

(***************************************************************************)
(* Python floats (IEEE 754 doubles).  A float is the number                *)
(*     (-1)^neg * mant * 2^exp                                             *)
(* with mant an odd natural number below 2^53 (in digits, as above); 0.0   *)
(* is Zero.  An operation of Python computes the exact result and rounds   *)
(* it to 53 binary digits, a tie going to the even neighbour.  Exact       *)
(* results are carried in the same form with a longer mant.  The prices    *)
(* of the scripts are far from the largest and the smallest double:        *)
(* overflow, subnormal numbers, infinities and NaN are not modelled, nor   *)
(* is the sign of zero, which no result of the scripts shows.              *)
(***************************************************************************)
PRECISION == 53

Zero == [neg |-> FALSE, mant |-> << >>, exp |-> 0]

\* the number (-1)^neg * mant * 2^exp with mant made odd
Number(neg, mant, exp) ==
    IF mant = << >> THEN Zero
    ELSE [neg |-> neg,
          mant |-> NatShiftRight(mant, LowZeros(mant)),
          exp |-> exp + LowZeros(mant)]

Negate(x) == Number(~x.neg, x.mant, x.exp)

Absolute(x) == Number(FALSE, x.mant, x.exp)

\* the integer v, -2^31 < v < 2^31
Integer(v) == Number(v < 0, Digits(IF v < 0 THEN 0 - v ELSE v), 0)

\* x.mant * 2^(x.exp - e), for e <= x.exp
Aligned(x, e) == NatShiftLeft(x.mant, x.exp - e)

\* (-1)^xneg * a + (-1)^yneg * b, times 2^e
SignedSum(xneg, a, yneg, b, e) ==
    IF xneg = yneg THEN Number(xneg, NatAdd(a, b), e)
    ELSE IF NatLess(a, b) THEN Number(yneg, NatSub(b, a), e)
    ELSE Number(xneg, NatSub(a, b), e)

\* x + y, exactly
ExactSum(x, y) ==
    IF x.mant = << >> THEN y
    ELSE IF y.mant = << >> THEN x
    ELSE IF x.exp <= y.exp
    THEN SignedSum(x.neg, x.mant, y.neg, Aligned(y, x.exp), x.exp)
    ELSE SignedSum(x.neg, Aligned(x, y.exp), y.neg, y.mant, y.exp)

\* x * y, exactly
ExactProduct(x, y) == Number(x.neg # y.neg, NatTimes(x.mant, y.mant), x.exp + y.exp)

\* x < y
FloatLess(x, y) == ExactSum(x, Negate(y)).neg

\* the binary digits of x.mant beyond the 53 that a double keeps
Excess(x) == NatBits(x.mant) - PRECISION

\* the digits kept and the digits dropped when the s low digits go
Kept(x, s) == NatShiftRight(x.mant, s)

Dropped(x, s) == NatSub(x.mant, NatShiftLeft(Kept(x, s), s))

\* round to nearest, ties to even: is the neighbour away from zero taken
RoundsUp(x, s) ==
    \/ NatLess(NatShiftLeft(<<1>>, s - 1), Dropped(x, s))
    \/ /\ Dropped(x, s) = NatShiftLeft(<<1>>, s - 1)
       /\ Kept(x, s)[1] % 2 = 1

\* the neighbour of x among the doubles, towards zero or away from it
Neighbour(x, s, up) ==
    Number(x.neg, IF up THEN NatAdd(Kept(x, s), <<1>>) ELSE Kept(x, s), x.exp + s)

\* the double nearest to x
Round(x) == IF Excess(x) <= 0 THEN x ELSE Neighbour(x, Excess(x), RoundsUp(x, Excess(x)))

\* x + y, x - y, x * y, abs(x)
FloatAdd(x, y) == Round(ExactSum(x, y))

FloatSub(x, y) == Round(ExactSum(x, Negate(y)))

FloatTimes(x, y) == Round(ExactProduct(x, y))

\* the binary digits computed of a quotient or a root: more than 53, so
\* that the digits dropped say on which side of a tie the exact result is
WORKING_BITS == 120

\* mant * 2^n / (ds[1] * ... * ds[k]) with n = WORKING_BITS, cut to an
\* integer and doubled, plus 1 if the division leaves a remainder: the
\* doubled quotient is odd when the exact one is not an integer, so it is
\* rounded as the exact quotient is
StickyQuotient(mant, ds) ==
    Only({NatAdd(NatShiftLeft(NatDivDigits(n, ds), 1),
                 IF \E i \in 1..Len(ds) :
                        NatModDigit(NatDivDigits(n, SubSeq(ds, 1, i - 1)), ds[i]) # 0
                 THEN <<1>> ELSE << >>) :
          n \in {NatShiftLeft(mant, WORKING_BITS)}})

\* x / (ds[1] * ... * ds[k]) for positive integers ds[i] < 2^15
FloatDivide(x, ds) ==
    Round(Number(x.neg, StickyQuotient(x.mant, ds), x.exp - WORKING_BITS - 1))

\* float(n) for the natural number n, negated if neg
FromNat(neg, n) == Round(Number(neg, n, 0))

\* float(v) for an integer v of the model's size
FromInteger(v) == Integer(v)

\* n / (ds[1] * ... * ds[k]) for integers: Python rounds the exact quotient
TrueDivide(neg, n, ds) == FloatDivide(Number(neg, n, 0), ds)

\* the square root of x > 0 to 60 binary digits, doubled, plus 1 if it is
\* not exact: x.mant is first multiplied by a power of 2 that gives it
\* 119 or 120 binary digits and leaves an even exponent
RootShift(x) ==
    (119 - NatBits(x.mant)) + ((x.exp - (119 - NatBits(x.mant))) % 2)

StickyRoot(n) ==
    Only({NatAdd(NatShiftLeft(r, 1), IF NatTimes(r, r) = n THEN << >> ELSE <<1>>) :
          r \in {NatSqrt(n, 60)}})

ExactRoot(x) ==
    IF x.mant = << >> THEN Zero
    ELSE Number(FALSE, StickyRoot(NatShiftLeft(x.mant, RootShift(x))),
                (x.exp - RootShift(x)) \div 2 - 1)

(***************************************************************************)
(* x ** y is pow(x, y) of the C library (float_pow), which does not round  *)
(* correctly: its error is below one step of the doubles, so a power that  *)
(* is a double is returned as it is, and for any other the library returns *)
(* one of the two doubles next to it.  A library is described by the calls *)
(* seen of it so far: a function from calls of pow with an inexact result  *)
(* to "nearest" or "other", the neighbour returned.  A call is the same    *)
(* call whenever it has the same arguments.                                *)
(***************************************************************************)
PowCall(x, y) == [x |-> x, y |-> y]

\* a library of which no call has been seen
NoCalls == [call \in {} |-> "nearest"]

\* does the library return the farther neighbour for the call
Errs(lm, call) == call \in DOMAIN lm /\ lm[call] = "other"

LibmRound(x, errs) ==
    IF Excess(x) <= 0 THEN x
    ELSE Neighbour(x, Excess(x), RoundsUp(x, Excess(x)) # errs)

\* x ** 2: pow(abs(x), 2.0)
Square(x, lm) ==
    LibmRound(ExactProduct(x, x), Errs(lm, PowCall(Absolute(x), "2.0")))

\* x ** 0.5 for x >= 0: pow(x, 0.5)
SquareRoot(x, lm) == LibmRound(ExactRoot(x), Errs(lm, PowCall(x, "0.5")))

\* the libraries that lm may turn out to be once the calls made are seen
Extensions(lm, made) ==
    {[call \in DOMAIN lm \cup made |->
          IF call \in DOMAIN lm THEN lm[call]
          ELSE IF call \in others THEN "other" ELSE "nearest"] :
     others \in SUBSET (made \ DOMAIN lm)}

(***************************************************************************)
(* session_filter.py: calculate_session_stats                              *)
(***************************************************************************)
\* calculate_session_stats: the place in self.sessions of the first session
\* that contains the record, 0 when it has no timestamp or is in none
SessionOf(record) ==
    IF ~Truthy(TsOf(record)) THEN 0
    ELSE LET ts == ToInt(TsOf(record))
             In(i) == is_in_session(ts, sessions[SessionNames[i]])
         IN  IF \E i \in 1..Len(SessionNames) : In(i)
             THEN CHOOSE i \in 1..Len(SessionNames) :
                      In(i) /\ \A j \in 1..(i - 1) : ~In(j)
             ELSE 0

\* stats[session_name]["volume"] += record["volume"], over the records
VolumeSum(records) ==
    LET with_volume == SelectSeq(records, LAMBDA r : "volume" \in DOMAIN r)
        Sum[i \in 0..Len(with_volume)] ==
            IF i = 0 THEN 0 ELSE Sum[i - 1] + with_volume[i].volume.v
    IN  Sum[Len(with_volume)]

\* a bug that leaves the percentage a fraction of 1
Percentage_fraction(count, total_count) ==
    IF total_count > 0 THEN TrueDivide(FALSE, Digits(count), <<total_count>>) ELSE Zero

\* (count / total_count) * 100 if total_count > 0 else 0
Percentage(count, total_count) ==
    IF total_count > 0
    THEN FloatTimes(TrueDivide(FALSE, Digits(count), <<total_count>>), FromInteger(100))
    ELSE Zero

\* adding a null volume raises TypeError
calculate_session_stats(data) ==
    LET counted == SelectSeq(data, LAMBDA r : SessionOf(r) # 0)
        Of(i) == SelectSeq(data, LAMBDA r : SessionOf(r) = i)
        Place(n) == CHOOSE i \in 1..Len(SessionNames) : SessionNames[i] = n
        total_count == Len(counted)
    IN  IF \E k \in 1..Len(counted) :
               "volume" \in DOMAIN counted[k] /\ counted[k].volume = None
        THEN Raise("TypeError")
        ELSE Return([n \in DOMAIN sessions |->
                 [count |-> Len(Of(Place(n))),
                  volume |-> VolumeSum(Of(Place(n))),
                  trades |-> Len(SelectSeq(Of(Place(n)), LAMBDA r : "size" \in DOMAIN r)),
                  percentage |-> Percentage(Len(Of(Place(n))), total_count)]])

(***************************************************************************)
(* validate_data.py                                                        *)
(* A check returns Done(report, appended): its sub-report and the issues   *)
(* it appends to self.issues, or Raise(exception).  The human-readable     *)
(* "message" of an issue and the derived "gap_minutes" are left out.       *)
(***************************************************************************)
Done(report, appended) == [kind |-> "return", value |-> report, appended |-> appended]

(***************************************************************************)
(* The local time of the process.  datetime.fromtimestamp(t) without tz    *)
(* converts with the C library's localtime, which reads the zone from the  *)
(* environment (TZ, /etc/localtime).  A zone is given by its name, the     *)
(* offset of its standard time from UTC in seconds and the rule of its     *)
(* daylight saving time: "none", or "US", the rule of the United States    *)
(* since 1967.                                                             *)
(***************************************************************************)
UTC == [name |-> "UTC", utcoffset |-> 0, dst |-> "none"]

AMERICA_NEW_YORK == [name |-> "America/New_York", utcoffset |-> 0 - 18000, dst |-> "US"]

ASIA_TOKYO == [name |-> "Asia/Tokyo", utcoffset |-> 32400, dst |-> "none"]

\* days from 1970-01-01 to the first day of month m of year y
DaysFromCivil(y, m) ==
    ((y - (IF m <= 2 THEN 1 ELSE 0)) \div 400) * 146097
        + ((y - (IF m <= 2 THEN 1 ELSE 0)) % 400) * 365
        + ((y - (IF m <= 2 THEN 1 ELSE 0)) % 400) \div 4
        - ((y - (IF m <= 2 THEN 1 ELSE 0)) % 400) \div 100
        + (153 * (IF m > 2 THEN m - 3 ELSE m + 9) + 2) \div 5
        - 719468

\* the year of the day that is day days after 1970-01-01
YearOfDay(day) ==
    CHOOSE y \in (1970 + day \div 366 - 1)..(1970 + day \div 365 + 1) :
        DaysFromCivil(y, 1) <= day /\ day < DaysFromCivil(y + 1, 1)

\* day of the week, 0 for Sunday (1970-01-01 was a Thursday)
Weekday(day) == (day + 4) % 7

\* the n-th Sunday of month m of year y
NthSunday(y, m, n) ==
    DaysFromCivil(y, m) + ((7 - Weekday(DaysFromCivil(y, m))) % 7) + 7 * (n - 1)

\* the last Sunday of month m < 12 of year y
LastSunday(y, m) ==
    DaysFromCivil(y, m + 1) - 1 - Weekday(DaysFromCivil(y, m + 1) - 1)

\* the days on which daylight saving time begins and ends in year y
USDstBegins(y) ==
    IF y >= 2007 THEN NthSunday(y, 3, 2)
    ELSE IF y >= 1987 THEN NthSunday(y, 4, 1)
    ELSE IF y = 1975 THEN DaysFromCivil(y, 2) + 22
    ELSE IF y = 1974 THEN DaysFromCivil(y, 1) + 5
    ELSE LastSunday(y, 4)

USDstEnds(y) == IF y >= 2007 THEN NthSunday(y, 11, 1) ELSE LastSunday(y, 10)

\* is daylight saving time in force at the instant sec of a zone whose
\* standard time is std seconds from UTC: from 02:00 standard time of the
\* first day to 02:00 daylight time (01:00 standard time) of the last
USDst(sec, std, y) ==
    /\ (sec + std - 7200) \div 86400 >= USDstBegins(y)
    /\ (sec + std - 3600) \div 86400 < USDstEnds(y)

\* the offset of local time from UTC at the instant sec, in seconds
utcoffset(zone, sec) ==
    IF zone.dst = "US" /\ USDst(sec, zone.utcoffset, YearOfDay((sec + zone.utcoffset) \div 86400))
    THEN zone.utcoffset + 3600
    ELSE zone.utcoffset

\* _format_timestamp: datetime.fromtimestamp without tz gives the wall-clock
\* time of the zone of the process, and strftime("%Y-%m-%d %H:%M:%S") drops
\* its sub-second part; the text is identified by the wall-clock second it
\* shows.
_format_timestamp(ts_ns, zone) ==
    FromTimestamp(ts_ns).sec + utcoffset(zone, FromTimestamp(ts_ns).sec)

_extract_timestamps(data) ==
    LET with_ts == SelectSeq(data, LAMBDA record : Truthy(TsOf(record)))
    IN  [i \in 1..Len(with_ts) |-> ToInt(TsOf(with_ts[i]))]

\* a bug that reports a gap of exactly the maximum
GapExceeds_or_equal(gap_ns, max_seconds) == gap_ns.sec >= max_seconds

\* gap_ns / 1_000_000_000 > self.max_gap_seconds.  The quotient is a
\* double: a gap of less than half a step of the doubles above the maximum
\* gives the maximum itself (from 2^24 seconds on the step is above 2 ns).
GapExceeds(gap_ns, max_seconds) ==
    \/ gap_ns.sec > max_seconds
    \/ /\ gap_ns.sec = max_seconds
       /\ gap_ns.nano > 0
       /\ \/ max_seconds < 8388608
          \/ gap_ns.nano > NS_PER_SECOND \div Pow2(53 - ILog2(max_seconds))

\* the loop over range(len(sorted_ts) - 1), from index i (0-based) on
RECURSIVE GapsFrom(_, _, _, _)
GapsFrom(sorted_ts, i, max_seconds, zone) ==
    IF i + 1 >= Len(sorted_ts) THEN <<>>
    ELSE LET gap_ns == NsDiff(sorted_ts[i + 2], sorted_ts[i + 1])
             gap_info == [index |-> i,
                          gap_seconds |-> gap_ns,
                          before |-> _format_timestamp(sorted_ts[i + 1], zone),
                          after |-> _format_timestamp(sorted_ts[i + 2], zone)]
         IN  (IF GapExceeds(gap_ns, max_seconds) THEN <<gap_info>> ELSE <<>>)
                 \o GapsFrom(sorted_ts, i + 1, max_seconds, zone)

GapIssue(gap_info) ==
    [type |-> "timestamp_gap", severity |-> "warning",
     index |-> gap_info.index, gap_seconds |-> gap_info.gap_seconds,
     before |-> gap_info.before, after |-> gap_info.after]

GAP_REPORT_LIMIT == 10

DUPLICATE_ISSUE_LIMIT == 10

\* zone: the time zone of the process
check_timestamp_gaps(data, max_seconds, zone) ==
    LET timestamps == _extract_timestamps(data)
    IN  IF Len(timestamps) < 2
        THEN Done([valid |-> TRUE, gaps |-> <<>>,
                   note |-> "Insufficient data for gap detection"], <<>>)
        ELSE LET sorted_ts == sorted(timestamps)
                 gaps == GapsFrom(sorted_ts, 0, max_seconds, zone)
             IN  Done([valid |-> Len(gaps) = 0,
                       gaps_found |-> Len(gaps),
                       gaps |-> Take(gaps, GAP_REPORT_LIMIT),
                       total_gaps |-> Len(gaps)],
                      [i \in 1..Len(gaps) |-> GapIssue(gaps[i])])

\* duplicates: (timestamp, count) for every timestamp counted more than
\* once, in the order the timestamps were first seen
Duplicates(timestamps) ==
    LET keys == InsertionOrder(timestamps)
        dup == SelectSeq(keys, LAMBDA e : Count(timestamps, e.key) > 1)
    IN  [i \in 1..Len(dup) |-> [ts |-> dup[i].key, count |-> Count(timestamps, dup[i].key)]]

DuplicateIssue(d, zone) ==
    [type |-> "duplicate_timestamp", severity |-> "error",
     timestamp |-> _format_timestamp(d.ts, zone), count |-> d.count]

\* a bug that reports the capped number of groups
check_duplicates_capped(data, zone) ==
    LET timestamps == _extract_timestamps(data)
        reported == Take(Duplicates(timestamps), DUPLICATE_ISSUE_LIMIT)
    IN  Done([valid |-> Len(reported) = 0,
              duplicates_found |-> Len(reported),
              duplicate_timestamps |-> Len(reported)],
             [i \in 1..Len(reported) |-> DuplicateIssue(reported[i], zone)])

check_duplicates(data, zone) ==
    LET timestamps == _extract_timestamps(data)
        duplicates == Duplicates(timestamps)
        reported == Take(duplicates, DUPLICATE_ISSUE_LIMIT)
    IN  Done([valid |-> Len(duplicates) = 0,
              duplicates_found |-> Len(duplicates),
              duplicate_timestamps |-> Len(duplicates)],
             [i \in 1..Len(reported) |-> DuplicateIssue(reported[i], zone)])

FIXED_POINT_THRESHOLD == 1000000

FIXED_POINT_SCALE == 1000000000

\* 1_000_000_000 as a product of numbers below 2^15
SCALE_FACTORS == <<512, 625, 3125>>

\* the price field _extract_prices reads from a record: "close" when the
\* record has it, else "price", else none ("")
PriceField(record) ==
    IF "close" \in DOMAIN record THEN "close"
    ELSE IF "price" \in DOMAIN record THEN "price"
    ELSE ""

\* price > 1_000_000, for an integer
AboveThreshold(x) ==
    IF x.k = "num" THEN x.v > FIXED_POINT_THRESHOLD
    ELSE x.sec > 0 \/ (x.sec = 0 /\ x.nano > FIXED_POINT_THRESHOLD)

\* price < 0, for an integer
IsNegative(x) == IF x.k = "num" THEN x.v < 0 ELSE x.sec < 0

\* the digits of abs(price), for an integer
AbsDigits(x) ==
    IF x.k = "num" THEN Digits(Magnitude(x.v))
    ELSE IF x.sec >= 0
    THEN NatAdd(NatTimes(Digits(x.sec), Digits(NS_PER_SECOND)), Digits(x.nano))
    ELSE NatSub(NatTimes(Digits(0 - x.sec), Digits(NS_PER_SECOND)), Digits(x.nano))

\* if isinstance(price, int) and price > 1_000_000:
\*     price = price / 1_000_000_000
\* float(price)
\* A negative integer is never above the threshold and stays as it is.
ToPrice(x) ==
    IF AboveThreshold(x) THEN TrueDivide(FALSE, AbsDigits(x), SCALE_FACTORS)
    ELSE FromNat(IsNegative(x), AbsDigits(x))

PricesOf(data) ==
    LET priced == SelectSeq(data, LAMBDA record : PriceField(record) # "")
    IN  [i \in 1..Len(priced) |-> ToPrice(priced[i][PriceField(priced[i])])]

\* float(None) raises TypeError
_extract_prices(data) ==
    IF \E i \in 1..Len(data) :
            PriceField(data[i]) # "" /\ data[i][PriceField(data[i])] = None
    THEN Raise("TypeError")
    ELSE Return(PricesOf(data))

\* sum(xs): the additions from left to right, beginning with 0
RECURSIVE FloatSum(_)
FloatSum(xs) ==
    IF xs = << >> THEN Zero
    ELSE Only({FloatAdd(s, xs[Len(xs)]) : s \in {FloatSum(SubSeq(xs, 1, Len(xs) - 1))}})

\* sum(prices) / len(prices)
Mean(prices) == FloatDivide(FloatSum(prices), <<Len(prices)>>)

\* (p - mean_price) ** 2 for p in prices
SquaredDeviations(prices, mean_price, lm) ==
    [i \in 1..Len(prices) |-> Square(FloatSub(prices[i], mean_price), lm)]

\* a bug that takes the sample variance (divides by N - 1)
Variance_sample(prices, mean_price, lm) ==
    FloatDivide(FloatSum(SquaredDeviations(prices, mean_price, lm)), <<Len(prices) - 1>>)

\* sum((p - mean_price) ** 2 for p in prices) / len(prices)
Variance(prices, mean_price, lm) ==
    FloatDivide(FloatSum(SquaredDeviations(prices, mean_price, lm)), <<Len(prices)>>)

\* variance ** 0.5
StdDev(prices, mean_price, lm) == SquareRoot(Variance(prices, mean_price, lm), lm)

\* abs(p - mean_price) > (self.price_outlier_std * std_dev)
IsOutlier(p, mean_price, std_dev, outlier_std) ==
    FloatLess(FloatTimes(FromInteger(outlier_std), std_dev),
              Absolute(FloatSub(p, mean_price)))

OUTLIER_ISSUE_LIMIT == 10

NEGATIVE_ISSUE_LIMIT == 10

OutlierIssue(p, mean_price, std_dev) ==
    [type |-> "price_outlier", severity |-> "warning",
     price |-> p, mean |-> mean_price, std_dev |-> std_dev]

NegativeIssue(p) == [type |-> "negative_price", severity |-> "error", price |-> p]

\* a bug that lets zero prices pass
PriceValid_ignoring_zero(negative_prices, zero_prices) == Len(negative_prices) = 0

\* valid = len(negative_prices) == 0 and len(zero_prices) == 0
PriceValid(negative_prices, zero_prices) ==
    Len(negative_prices) = 0 /\ Len(zero_prices) = 0

\* [p for p in prices if abs(p - mean_price) > (self.price_outlier_std * std_dev)]
Outliers(prices, mean_price, std_dev, outlier_std) ==
    SelectSeq(prices, LAMBDA p : IsOutlier(p, mean_price, std_dev, outlier_std))

\* the smallest and the largest of the prices
MinPrice(prices) ==
    CHOOSE p \in {prices[i] : i \in 1..Len(prices)} :
        \A i \in 1..Len(prices) : ~FloatLess(prices[i], p)

MaxPrice(prices) ==
    CHOOSE p \in {prices[i] : i \in 1..Len(prices)} :
        \A i \in 1..Len(prices) : ~FloatLess(p, prices[i])

\* the sub-report and the issues, from the statistics and the outliers
PriceResult(prices, mean_price, std_dev, outliers) ==
    LET negative_prices == SelectSeq(prices, LAMBDA p : p.neg)
        zero_prices == SelectSeq(prices, LAMBDA p : p = Zero)
    IN  Done([valid |-> PriceValid(negative_prices, zero_prices),
              min_price |-> MinPrice(prices),
              max_price |-> MaxPrice(prices),
              mean_price |-> mean_price,
              std_dev |-> std_dev,
              negative_prices |-> Len(negative_prices),
              zero_prices |-> Len(zero_prices),
              outliers |-> Len(outliers)],
             [i \in 1..Len(Take(outliers, OUTLIER_ISSUE_LIMIT)) |->
                  OutlierIssue(outliers[i], mean_price, std_dev)]
                 \o [i \in 1..Len(Take(negative_prices, NEGATIVE_ISSUE_LIMIT)) |->
                         NegativeIssue(negative_prices[i])])

\* if len(prices) > 1, once mean_price and std_dev are computed
WithStatistics(prices, mean_price, std_dev, outlier_std) ==
    Only({PriceResult(prices, mean_price, std_dev, outliers) :
          outliers \in {Outliers(prices, mean_price, std_dev, outlier_std)}})

WithMean(prices, mean_price, outlier_std, lm) ==
    Only({WithStatistics(prices, mean_price, std_dev, outlier_std) :
          std_dev \in {StdDev(prices, mean_price, lm)}})

\* check_price_range from the prices on; with one price mean_price is the
\* price and std_dev is 0
PriceCheck(prices, outlier_std, lm) ==
    IF prices = << >>
    THEN Done([valid |-> TRUE, note |-> "No price data to validate"], << >>)
    ELSE IF Len(prices) > 1
    THEN Only({WithMean(prices, mean_price, outlier_std, lm) :
               mean_price \in {Mean(prices)}})
    ELSE PriceResult(prices, prices[1], Zero, << >>)

\* lm: the pow of the C library
check_price_range(data, outlier_std, lm) ==
    IF _extract_prices(data).kind = "raise" THEN _extract_prices(data)
    ELSE Only({PriceCheck(prices, outlier_std, lm) : prices \in {PricesOf(data)}})

\* the calls of pow with an inexact result among the squares of the
\* deviations from mean_price
SquareCalls(prices, mean_price) ==
    {PowCall(Absolute(d), "2.0") :
         d \in {e \in {FloatSub(prices[i], mean_price) : i \in 1..Len(prices)} :
                    Excess(ExactProduct(e, e)) > 0}}

\* the call of pow for the root of the variance, if its result is inexact
RootCalls(variance) ==
    IF Excess(ExactRoot(variance)) > 0 THEN {PowCall(variance, "0.5")} ELSE {}

WithSquareCalls(prices, mean_price, lm) ==
    UNION {Extensions(seen, RootCalls(Variance(prices, mean_price, seen))) :
           seen \in Extensions(lm, SquareCalls(prices, mean_price))}

\* the libraries that lm may turn out to be when check_price_range has
\* made its calls of pow for the prices
LibrariesFor(prices, lm) ==
    IF Len(prices) < 2 THEN {lm}
    ELSE Only({WithSquareCalls(prices, mean_price, lm) : mean_price \in {Mean(prices)}})

Libraries(data, lm) ==
    IF _extract_prices(data).kind = "raise" THEN {lm}
    ELSE Only({LibrariesFor(prices, lm) : prices \in {PricesOf(data)}})

\* a bug: an estimator that expects 24 records of an hourly schema
_estimate_expected_count_hourly(data, schema_) ==
    IF Contains(<<"o", "h", "l", "c", "v">>, schema_) /\ Contains(<<"1", "h">>, schema_)
    THEN Num(24)
    ELSE None

\* _estimate_expected_count: every branch returns None
_estimate_expected_count(data, schema_) ==
    IF Contains(<<"o", "h", "l", "c", "v">>, schema_)
    THEN IF Contains(<<"1", "h">>, schema_) THEN None
         ELSE IF Contains(<<"1", "d">>, schema_) THEN None
         ELSE None
    ELSE None

\* abs(len(data) - expected_count) > expected_count * 0.1, times ten
CountDeviates(n, expected_count) == 10 * Abs(n - expected_count) > expected_count

check_record_count(data, schema_) ==
    LET expected_count == _estimate_expected_count(data, schema_)
        deviates == Truthy(expected_count) /\ CountDeviates(Len(data), expected_count.v)
    IN  Done([valid |-> ~deviates,
              actual_count |-> Len(data),
              expected_count |-> expected_count,
              note |-> "Expected count is estimated based on schema and date range"],
             IF deviates
             THEN <<[type |-> "unexpected_record_count", severity |-> "warning",
                     actual |-> Len(data), expected |-> expected_count]>>
             ELSE <<>>)

\* _get_required_fields
_get_required_fields(schema_) ==
    LET base_fields == <<"ts_event", "ts_recv">>
    IN  IF Contains(<<"o", "h", "l", "c", "v">>, schema_)
        THEN base_fields \o <<"open", "high", "low", "close", "volume">>
        ELSE IF schema_ = <<"t", "r", "a", "d", "e", "s">>
        THEN base_fields \o <<"price", "size">>
        ELSE IF Contains(<<"m", "b", "p">>, schema_)
        THEN base_fields \o <<"bid_px_00", "ask_px_00", "bid_sz_00", "ask_sz_00">>
        ELSE base_fields

SAMPLE_SIZE == 100

\* a bug that walks every record
Sample_all(data) == data

\* data[:100]
Sample(data) == Take(data, SAMPLE_SIZE)

\* field not in record or record[field] is None
IsMissing(record, field) == field \notin DOMAIN record \/ record[field] = None

\* missing_fields[field]: the sampled records that lack the field
MissingCount(sample, field) ==
    Cardinality({i \in 1..Len(sample) : IsMissing(sample[i], field)})

\* the first sampled record that lacks the field
FirstMissing(sample, field) ==
    CHOOSE i \in 1..Len(sample) :
        /\ IsMissing(sample[i], field)
        /\ \A j \in 1..(i - 1) : ~IsMissing(sample[j], field)

\* does the nested loop (records, then required fields) meet the missing
\* field required_fields[a] before required_fields[b]
MissingBefore(sample, required_fields, a, b) ==
    LET fa == FirstMissing(sample, required_fields[a])
        fb == FirstMissing(sample, required_fields[b])
    IN  fa < fb \/ (fa = fb /\ a < b)

\* the keys of missing_fields in insertion order
MissingKeys(sample, required_fields) ==
    LET miss == {a \in 1..Len(required_fields) :
                     MissingCount(sample, required_fields[a]) > 0}
        rank(a) == Cardinality({b \in miss : MissingBefore(sample, required_fields, b, a)})
    IN  [r \in 1..Cardinality(miss) |->
             required_fields[CHOOSE a \in miss : rank(a) = r - 1]]

MissingIssue(field, count) ==
    [type |-> "missing_field", severity |-> "error",
     field |-> field, missing_count |-> count]

check_completeness(data, schema_) ==
    IF data = <<>>
    THEN Done([valid |-> FALSE, note |-> "No data"], <<>>)
    ELSE LET required_fields == _get_required_fields(schema_)
             sample == Sample(data)
             keys == MissingKeys(sample, required_fields)
             missing_fields == [f \in {keys[i] : i \in 1..Len(keys)} |->
                                    MissingCount(sample, f)]
         IN  Done([valid |-> Len(keys) = 0,
                   missing_fields |-> missing_fields],
                  [i \in 1..Len(keys) |-> MissingIssue(keys[i], missing_fields[keys[i]])])

(***************************************************************************)
(* DataValidator.validate: the report it returns and the issue list it     *)
(* leaves in self.issues.  report["issues"] is self.issues itself.         *)
(***************************************************************************)
\* the report of an empty input: no check runs, no "issues" key
EmptyReport(self_issues) ==
    [kind |-> "return",
     value |-> [total_records |-> 0, valid |-> FALSE, checks |-> << >>],
     issues |-> self_issues]

\* the report, from the sub-reports and the issues of the five checks
Report(data, checks, all_issues) ==
    [kind |-> "return",
     value |-> [total_records |-> Len(data),
                valid |-> \A c \in DOMAIN checks : checks[c].valid,
                checks |-> checks,
                issues |-> all_issues],
     issues |-> all_issues]

\* validate() from the record count check on
AfterPriceRange(data, self_issues, gaps, dups, price, count, compl) ==
    Report(data,
           [timestamp_gaps |-> gaps.value,
            duplicates |-> dups.value,
            price_range |-> price.value,
            record_count |-> count.value,
            data_completeness |-> compl.value],
           self_issues \o gaps.appended \o dups.appended \o price.appended
               \o count.appended \o compl.appended)

\* validate() from the price check on: an exception of the check leaves
\* validate() with the issues appended so far
AfterDuplicates(data, self_issues, schema_, gaps, dups, price) ==
    IF price.kind = "raise"
    THEN [kind |-> "raise", exc |-> price.exc,
          issues |-> self_issues \o gaps.appended \o dups.appended]
    ELSE Only({AfterPriceRange(data, self_issues, gaps, dups, price, count, compl) :
               count \in {check_record_count(data, schema_)},
               compl \in {check_completeness(data, schema_)}})

\* the five checks in order, each appending to self.issues
RunChecks(data, self_issues, schema_, max_seconds, outlier_std, zone, lm) ==
    Only({AfterDuplicates(data, self_issues, schema_, gaps, dups, price) :
          gaps \in {check_timestamp_gaps(data, max_seconds, zone)},
          dups \in {check_duplicates(data, zone)},
          price \in {check_price_range(data, outlier_std, lm)}})

\* a bug that runs the checks on an empty input too
validate_without_short_circuit(data, self_issues, schema_, max_seconds, outlier_std, zone, lm) ==
    RunChecks(data, self_issues, schema_, max_seconds, outlier_std, zone, lm)

validate(data, self_issues, schema_, max_seconds, outlier_std, zone, lm) ==
    IF data = << >>
    THEN EmptyReport(self_issues)
    ELSE RunChecks(data, self_issues, schema_, max_seconds, outlier_std, zone, lm)

(***************************************************************************)
(* Inputs                                                                  *)
(***************************************************************************)
\* day of the inputs, in days since the epoch (19676 is 2023-11-15)
BaseDay == 19676

\* longest record list given to the session filters
MaxLen == 2

\* validate() calls on one DataValidator instance
MaxCalls == 2

\* direct calls of check methods on one DataValidator instance
MaxCheckCalls == 1

\* most duplicate groups, gaps and negative prices in one input
MaxGroups == 11

\* longest record list given to the completeness check
BigN == 101

\* the instant h:m:s UTC of the base day, plus n nanoseconds
At(h, m, s, n) == Ns(BaseDay * 86400 + h * 3600 + m * 60 + s, n)

\* the instant h:m:s in the fixed UTC-5 frame of the scripts
AtET(h, m, s, n) == At(h + ET_OFFSET_HOURS, m, s, n)

\* ts + seconds
Plus(ts, seconds) == Ns(ts.sec + seconds, ts.nano)

\* a complete OHLCV bar
Bar(ts, c) ==
    [ts_event |-> ts, ts_recv |-> ts, open |-> Num(c), high |-> Num(c),
     low |-> Num(c), close |-> Num(c), volume |-> Num(1)]

\* a complete trade
Trade(ts, px) == [ts_event |-> ts, ts_recv |-> ts, price |-> Num(px), size |-> Num(1)]

\* record without the field f
Without(record, f) == [g \in DOMAIN record \ {f} |-> record[g]]

\* record with field f set to v
With(record, f, v) == [g \in DOMAIN record \cup {f} |-> IF g = f THEN v ELSE record[g]]

Rep(record, n) == [i \in 1..n |-> record]

Reverse(seq) == [i \in 1..Len(seq) |-> seq[Len(seq) + 1 - i]]

\* all sequences over S of length at most n
SeqUpTo(S, n) == UNION {[1..k -> S] : k \in 0..n}

T0 == At(14, 0, 0, 0)

\* 2023-07-01 12:00:00 UTC, in the daylight saving time of the United States
Summer == Ns(1688212800, 0)

\* 2023-11-05 06:00:00 UTC: the clocks of New York go back from 02:00 to 01:00
FallBack == Ns(1699164000, 0)

\* 2024-03-10 07:00:00 UTC: the clocks of New York go on from 02:00 to 03:00
SpringForward == Ns(1710054000, 0)

\* n bars, step seconds (and stepNano nanoseconds) apart
Series(n, step, stepNano, c) ==
    [i \in 1..n |-> Bar(Ns(T0.sec + (i - 1) * step, (i - 1) * stepNano), c)]

\* bars with the given closes, one minute apart
Priced(closes) == [i \in 1..Len(closes) |-> Bar(Plus(T0, (i - 1) * 60), closes[i])]

\* k groups of two bars with the same timestamp, then one bar of its own
DupSeries(k) ==
    [i \in 1..(2 * k + 1) |-> Bar(Plus(T0, ((i + 1) \div 2) * 60), 100)]

\* records for the session filters: in each session, in the two hours after
\* the NY close, just before a boundary, and without a usable timestamp
SessionRecords ==
    { [ts_event |-> AtET(1, 30, 0, 0), volume |-> Num(3)],
      [ts_event |-> AtET(5, 0, 0, 0), size |-> Num(2)],
      [ts_event |-> AtET(12, 0, 0, 0), volume |-> Num(7), size |-> Num(1)],
      [ts_event |-> AtET(16, 0, 0, 0)],
      [ts_event |-> AtET(17, 59, 59, 0)],
      [ts_event |-> AtET(18, 0, 0, 0)],
      [ts_event |-> AtET(1, 59, 59, 999999450)],
      [ts_event |-> None, ts_recv |-> AtET(9, 0, 0, 0)],
      [ts_event |-> Ns(0, 0), timestamp |-> AtET(3, 0, 0, 0)],
      [ts_event |-> Ns(0, 0)],
      [ts_recv |-> None, volume |-> Num(1)],
      [ts_event |-> AtET(9, 30, 0, 0), volume |-> None],
      [volume |-> Num(4)] }

SessionData == SeqUpTo(SessionRecords, MaxLen)

SessionLists ==
    { <<"Asian", "London", "NY">>, <<"NY">>, <<"London", "Asian">>, << >>,
      <<"NY", "Tokyo">>, <<"Tokyo", "NY">> }

\* instants for is_in_session: every hour of the day, on the hour, one
\* nanosecond and half an hour after it, one nanosecond before the next,
\* and 550 ns and 597 ns before the next: the first is carried into the
\* next hour, the second is not
Instants ==
    { At(h, 0, 0, 0) : h \in 0..23 } \cup { At(h, 0, 0, 1) : h \in 0..23 }
        \cup { At(h, 30, 0, 0) : h \in 0..23 }
        \cup { At(h, 59, 59, 999999999) : h \in 0..23 }
        \cup { At(h, 59, 59, 999999450) : h \in 0..23 }
        \cup { At(h, 59, 59, 999999403) : h \in 0..23 }

\* the UTC offsets of the ISO texts: Z, New York, Tokyo, Kolkata
Offsets == {0, 0 - 18000, 32400, 19800}

\* the timestamp arguments of get_current_session
Timestamps ==
    { IsoText(ts, offset) : ts \in Instants, offset \in Offsets }
        \cup { None, Text(""), Text("now") }

\* records around the 08:00 transition and around midnight
TransitionRecords ==
    { [ts_event |-> AtET(6, 59, 59, 0)],
      [ts_event |-> AtET(7, 0, 0, 0)],
      [ts_event |-> AtET(7, 29, 59, 0)],
      [ts_event |-> AtET(7, 30, 0, 0)],
      [ts_event |-> AtET(8, 0, 0, 0)],
      [ts_event |-> AtET(8, 30, 0, 0)],
      [ts_event |-> AtET(8, 30, 0, 1000)],
      [ts_event |-> AtET(8, 31, 0, 0)],
      [ts_event |-> AtET(9, 0, 0, 0)],
      [ts_event |-> AtET(9, 0, 0, 1000)],
      [ts_event |-> AtET(12, 0, 0, 0)],
      [ts_event |-> AtET(23, 59, 0, 0)],
      [ts_event |-> AtET(1, 45, 0, 0)],
      [ts_recv |-> AtET(16, 10, 0, 0)],
      [volume |-> Num(4)] }

TransitionData == SeqUpTo(TransitionRecords, MaxLen)

\* (minutes_before, minutes_after)
TransitionWindows == { <<30, 30>>, <<0, 0>>, <<30, 0>>, <<0, 30>>, <<15, 60>> }

\* schemas, as sequences of characters
OHLCV_1H == <<"o", "h", "l", "c", "v", "-", "1", "h">>

OHLCV_1D == <<"o", "h", "l", "c", "v", "-", "1", "d">>

TRADES == <<"t", "r", "a", "d", "e", "s">>

MBP_1 == <<"m", "b", "p", "-", "1">>

TBBO == <<"t", "b", "b", "o">>

\* DataValidator(schema, max_gap_minutes, price_outlier_std)
Configs ==
    { [schema |-> OHLCV_1H, max_gap_minutes |-> 60, price_outlier_std |-> 10],
      [schema |-> OHLCV_1D, max_gap_minutes |-> 1,  price_outlier_std |-> 1],
      [schema |-> TRADES,   max_gap_minutes |-> 60, price_outlier_std |-> 2],
      [schema |-> MBP_1,    max_gap_minutes |-> 60, price_outlier_std |-> 10],
      [schema |-> TBBO,     max_gap_minutes |-> 0,  price_outlier_std |-> 0] }

NoVolume == Without(Bar(T0, 100), "volume")

\* inputs of validate()
ValidateData ==
    { << >>,
      <<Bar(T0, 100)>>,
      Series(2, 3600, 0, 100),
      Series(2, 3660, 0, 100),
      Series(3, 60, 0, 100),
      Priced(<<1, 2, 3>>),
      Priced(<<100, 100, 100, 100, -5>>),
      <<Bar(T0, 100), Bar(T0, 100), Bar(Plus(T0, 60), 100)>>,
      <<Bar(T0, 100), With(Bar(Plus(T0, 60), 100), "close", None)>>,
      <<Bar(T0, 100), With(Bar(T0, 100), "close", None)>>,
      <<Trade(T0, 50), Trade(Plus(T0, 1), 51)>>,
      <<NoVolume, Bar(Plus(T0, 3700), 0)>>,
      <<[ts_event |-> T0, ts_recv |-> T0]>>,
      <<[bid_px_00 |-> Num(1), ask_px_00 |-> Num(2), bid_sz_00 |-> Num(1),
         ask_sz_00 |-> Num(1), ts_event |-> T0, ts_recv |-> T0]>> }

\* inputs of check_timestamp_gaps
GapData ==
    { << >>, <<Bar(T0, 100)>>, <<[volume |-> Num(1)], Bar(T0, 100)>>,
      <<[ts_event |-> Ns(0, 0), ts_recv |-> T0], [timestamp |-> Plus(T0, 3601)]>> }
      \cup { Series(2, d, n, 100) : d \in {0, 1, 59, 60, 61, 3600, 3660}, n \in {0, 1} }
      \cup { Reverse(Series(2, d, n, 100)) : d \in {60, 61, 3600, 3660}, n \in {0, 1} }
      \cup { Series(3, d, 0, 100) : d \in {60, 3600, 3660} }
      \cup { <<Bar(Plus(T0, 3660), 1), Bar(Plus(T0, 7320), 1), Bar(T0, 1), Bar(T0, 2)>> }
      \cup { Series(MaxGroups + 1, d, 0, 100) : d \in {3600, 3660} }
      \cup { Reverse(Series(MaxGroups + 1, 3660, 0, 100)) }
      \cup { <<Bar(Summer, 1), Bar(Plus(Summer, 7200), 1)>>,
             <<Bar(Plus(FallBack, 0 - 1800), 1), Bar(Plus(FallBack, 1800), 1)>>,
             <<Bar(Plus(SpringForward, 0 - 1), 1), Bar(Plus(SpringForward, 3600), 1)>> }

\* inputs of check_duplicates
DuplicateData ==
    { << >>, <<[volume |-> Num(1)], [volume |-> Num(1)]>>,
      <<[ts_event |-> Ns(0, 100)], [ts_event |-> Ns(0, 100)], [ts_event |-> Ns(0, 200)]>>,
      <<[ts_event |-> Ns(0, 0)], [ts_event |-> Ns(0, 0)]>>,
      <<[ts_event |-> T0], [ts_recv |-> T0], [timestamp |-> T0], [ts_event |-> Plus(T0, 1)]>>,
      <<Bar(Plus(T0, 60), 1), Bar(T0, 1), Bar(Plus(T0, 60), 1), Bar(T0, 1), Bar(T0, 1)>>,
      <<[ts_event |-> At(1, 0, 0, 1)], [ts_event |-> At(1, 0, 0, 2)]>> }
      \cup { DupSeries(k) : k \in 0..MaxGroups }
      \cup { Reverse(DupSeries(k)) : k \in {2, MaxGroups} }
      \cup { <<Bar(Plus(FallBack, 0 - 1800), 1), Bar(Plus(FallBack, 1800), 1),
               Bar(Plus(FallBack, 0 - 1800), 1), Bar(Plus(FallBack, 1800), 1)>>,
             <<Bar(Summer, 1), Bar(Summer, 1)>> }

\* k closes -1 .. -k
Negatives(k) == [i \in 1..k |-> 0 - i]

\* the close that gives -1 .. -k and itself an integer as their mean
LastClose(k) == IF k % 2 = 0 THEN k + 1 ELSE (k + 1) \div 2

\* inputs of check_price_range
PriceData ==
    { << >>, <<[ts_event |-> T0]>>,
      <<With(Bar(T0, 100), "close", None)>>,
      <<Bar(T0, 100), Trade(T0, 5), [ts_event |-> T0, price |-> None]>>,
      <<[ts_event |-> T0, close |-> Num(7), price |-> None]>>,
      <<Bar(T0, 2000000000), Bar(T0, 2), Bar(T0, 1500000000)>>,
      <<Bar(T0, 1000000)>>, <<Bar(T0, 1000001)>>,
      <<Bar(T0, 1250000), Bar(T0, 2500000), Bar(T0, 2500000)>>,
      <<With(Bar(T0, 1), "close", Ns(4500, 250000000)), Bar(T0, 4500)>>,
      <<With(Bar(T0, 1), "close", Ns(0 - 5, 0)), Bar(T0, 0 - 2000000)>>,
      <<With(Bar(T0, 1), "close", Ns(9007199, 254740993)), Bar(T0, 9007199)>>,
      <<With(Bar(T0, 1), "close", Ns(0 - 9007200, 745259007))>>,
      <<Trade(T0, 5), Trade(T0, 0 - 5), [ts_event |-> T0, size |-> Num(1)]>> }
      \cup { Priced(c) : c \in { <<100, 100, 100, 100, -5>>, <<100>>, <<0>>, <<-1>>,
                                 <<100, 0>>, <<0, 0, -3>>, <<1, 1, 1, 1, 50>>,
                                 <<1, 2, 3>>, <<5, 5>>, <<0, 2>>,
                                 <<4, 4, 4, 7, 4>>, <<1, 1, 1, 1, 2>>,
                                 <<100000000, 100000000, 100000000>>,
                                 <<10, 10, 10, 10, 10, 10, 10, 10, 10, 10, 120>> } }
      \cup { Priced(Negatives(k) \o <<LastClose(k)>>) :
                 k \in {MaxGroups - 2, MaxGroups - 1, MaxGroups} }
      \cup { Priced(<<1>> \o Negatives(MaxGroups) \o <<0>>) }

\* inputs of check_completeness
CompletenessData ==
    { << >>, <<Bar(T0, 100)>>, <<NoVolume>>, <<Trade(T0, 5)>>,
      <<With(Bar(T0, 100), "volume", None), Without(Bar(T0, 100), "open")>>,
      <<Without(Bar(T0, 1), "low"), Without(Without(Bar(T0, 1), "open"), "low"),
        Without(Bar(T0, 1), "ts_event")>>,
      <<[volume |-> Num(0)], Bar(T0, 100)>>,
      <<[bid_px_00 |-> Num(1), ask_px_00 |-> Num(2), bid_sz_00 |-> Num(1),
         ask_sz_00 |-> None, ts_event |-> T0, ts_recv |-> T0]>> }
      \cup { Rep(NoVolume, n) : n \in {SAMPLE_SIZE - 1, SAMPLE_SIZE, BigN} }
      \cup { Rep(Bar(T0, 100), BigN),
             Rep(Bar(T0, 100), SAMPLE_SIZE) \o Rep(NoVolume, BigN - SAMPLE_SIZE),
             Rep(Bar(T0, 100), SAMPLE_SIZE - 1) \o <<NoVolume>>
                 \o Rep(Without(Bar(T0, 100), "open"), BigN - SAMPLE_SIZE),
             Rep(NoVolume, SAMPLE_SIZE) \o Rep(Trade(T0, 5), BigN - SAMPLE_SIZE) }

\* inputs of check_record_count
CountData == { << >>, <<Bar(T0, 100)>>, Series(3, 3600, 0, 100), Rep(NoVolume, BigN) }

(***************************************************************************)
(* fetch_ohlcv.py: DatabentoPHTLCVFetcher                                  *)
(***************************************************************************)
\* self.max_retries and self.retry_delay (seconds)
max_retries == 3
retry_delay == 2

\* what estimate_cost returns
estimate_cost ==
    [estimated_cost_usd |-> 0, estimated_size_mb |-> 0,
     note |-> "Call mcp__databento__metadata_get_cost here"]

\* fetch_data asks for confirmation above this estimate
COST_PROMPT_USD == 10

\* the ASCII letters; a text is the sequence of its characters
ASCII_UPPERCASE ==
    <<"A", "B", "C", "D", "E", "F", "G", "H", "I", "J", "K", "L", "M",
      "N", "O", "P", "Q", "R", "S", "T", "U", "V", "W", "X", "Y", "Z">>

ASCII_LOWERCASE ==
    <<"a", "b", "c", "d", "e", "f", "g", "h", "i", "j", "k", "l", "m",
      "n", "o", "p", "q", "r", "s", "t", "u", "v", "w", "x", "y", "z">>

\* response.lower(), for a text of ASCII characters
lower(response) ==
    [i \in 1..Len(response) |->
        IF \E n \in 1..26 : ASCII_UPPERCASE[n] = response[i]
        THEN ASCII_LOWERCASE[CHOOSE n \in 1..26 : ASCII_UPPERCASE[n] = response[i]]
        ELSE response[i]]

\* answers to the prompt
Responses ==
    {<<"y">>, <<"Y">>, <<"n">>, <<"N">>, << >>, <<"y", "e", "s">>, <<"Y", "E", "S">>,
     <<"y", " ">>}

\* what a successful attempt returns
FetchResult ==
    [data |-> << >>, record_count |-> 0,
     note |-> "Call mcp__databento__timeseries_get_range here"]

\* what the body of the try statement can raise: subclasses of Exception,
\* which the handler catches, and other exceptions, which it does not
Exceptions == {"ConnectionError", "TimeoutError", "ValueError"}

BaseExceptions == {"KeyboardInterrupt"}

AttemptOutcomes == {"ok"} \cup Exceptions \cup BaseExceptions

\* how time.sleep(self.retry_delay) ends: it returns after the delay, or
\* an interrupt of the wait raises from it
SleepOutcomes == {"ok"} \cup BaseExceptions

\* the exception object a handler holds
Exception(type) == [k |-> "exception", type |-> type]

\* the entries of the log
AttemptEvent(n) == [ev |-> "attempt", n |-> n + 1]
SuccessEvent == [ev |-> "success"]
ErrorEvent(n, e) == [ev |-> "error", n |-> n + 1, exc |-> e]
SleepEvent(seconds) == [ev |-> "sleep", seconds |-> seconds]
FailedEvent == [ev |-> "failed"]

MayRetry_always(n) == n < max_retries

\* if attempt < self.max_retries - 1
MayRetry(n) == n < max_retries - 1

(***************************************************************************)
(* State machine                                                           *)
(*   schema, max_gap_seconds, price_outlier_std, issues: the fields of one *)
(*       DataValidator instance                                            *)
(*   calls: calls made on that instance                                    *)
(*   op, arg, cfg, ret: the last call, its record list, its other          *)
(*       arguments and its outcome                                         *)
(*   issuesBefore: self.issues as the last call found it                   *)
(*   pc, attempt, exc: the position of a running fetch_data call, its loop *)
(*       variable and the exception its handler holds                      *)
(*   log: what the fetch_data call has done so far: the attempts it        *)
(*       announced, the errors it caught and the calls of time.sleep       *)
(*   tz: the time zone of the process                                      *)
(*   libm: the pow of the C library of the process, as far as the calls    *)
(*       made have shown it                                                *)
(***************************************************************************)
\* the zones a process is started in
Zones == {UTC, AMERICA_NEW_YORK, ASIA_TOKYO}

\* DataValidator.__init__, in a process of the zone
New(c, zone) ==
    /\ schema = c.schema
    /\ max_gap_seconds = c.max_gap_minutes * 60
    /\ price_outlier_std = c.price_outlier_std
    /\ issues = << >>
    /\ calls = 0
    /\ op = "__init__"
    /\ arg = << >>
    /\ cfg = << >>
    /\ ret = Return(None)
    /\ issuesBefore = << >>
    /\ pc = "idle"
    /\ attempt = 0
    /\ exc = None
    /\ log = << >>
    /\ tz = zone
    /\ libm = NoCalls

Init == \E c \in Configs, zone \in Zones : New(c, zone)

\* SessionFilter(); the validator is the default one of the command line.
\* The filter converts with tz=timezone.utc and calls no pow: it does the
\* same in every zone and with every library.
InitSession ==
    New([schema |-> OHLCV_1H, max_gap_minutes |-> 60, price_outlier_std |-> 10], UTC)

\* DatabentoPHTLCVFetcher(); no call made yet
InitFetch == InitSession

Outcome(r) == IF r.kind = "raise" THEN Raise(r.exc) ELSE Return(r.value)

\* validate(data); the calls of pow show the library to be lm
Validate(data) ==
    /\ calls < MaxCalls
    /\ \E lm \in Libraries(data, libm) :
           \E r \in {validate(data, issues, schema, max_gap_seconds, price_outlier_std,
                              tz, lm)} :
               /\ issues' = r.issues
               /\ ret' = Outcome(r)
               /\ libm' = lm
    /\ issuesBefore' = issues
    /\ calls' = calls + 1
    /\ op' = "validate"
    /\ arg' = data
    /\ UNCHANGED <<schema, max_gap_seconds, price_outlier_std, cfg, tz>>
    /\ UNCHANGED fetchVars

\* a direct call of one check method, with outcome r
Check(name, data, r) ==
    /\ issues' = IF r.kind = "raise" THEN issues ELSE issues \o r.appended
    /\ ret' = Outcome(r)
    /\ issuesBefore' = issues
    /\ calls' = calls + 1
    /\ op' = name
    /\ arg' = data
    /\ UNCHANGED <<schema, max_gap_seconds, price_outlier_std, cfg, tz>>
    /\ UNCHANGED fetchVars

CheckTimestampGaps(data) ==
    /\ calls < MaxCheckCalls
    /\ \E r \in {check_timestamp_gaps(data, max_gap_seconds, tz)} :
           Check("check_timestamp_gaps", data, r)
    /\ UNCHANGED libm

CheckDuplicates(data) ==
    /\ calls < MaxCheckCalls
    /\ \E r \in {check_duplicates(data, tz)} :
           Check("check_duplicates", data, r)
    /\ UNCHANGED libm

\* check_price_range(data); the calls of pow show the library to be lm
CheckPriceRange(data) ==
    /\ calls < MaxCheckCalls
    /\ \E lm \in Libraries(data, libm) :
           \E r \in {check_price_range(data, price_outlier_std, lm)} :
               /\ Check("check_price_range", data, r)
               /\ libm' = lm

CheckRecordCount(data) ==
    /\ calls < MaxCheckCalls
    /\ \E r \in {check_record_count(data, schema)} :
           Check("check_record_count", data, r)
    /\ UNCHANGED libm

CheckCompleteness(data) ==
    /\ calls < MaxCheckCalls
    /\ \E r \in {check_completeness(data, schema)} :
           Check("check_completeness", data, r)
    /\ UNCHANGED libm

\* a call on a SessionFilter.  The filter keeps no state between calls:
\* each behaviour makes one call on a new filter, as main() does.
SessionCall(name, data, args, r) ==
    /\ op' = name
    /\ arg' = data
    /\ cfg' = args
    /\ ret' = r
    /\ UNCHANGED validatorVars
    /\ UNCHANGED fetchVars
    /\ UNCHANGED envVars

\* is_in_session(ts, s) for each of the three sessions s
IsInSession(ts) ==
    /\ op = "__init__"
    /\ LET r == Return([i \in 1..3 |-> is_in_session(ToInt(ts), TradingSession[i])])
       IN  SessionCall("is_in_session", << >>, ts, r)

\* get_current_session(timestamp); now is the clock when the call reads
\* it, and None when it does not
GetCurrentSession(timestamp, now) ==
    /\ op = "__init__"
    /\ (now = None) <=> (timestamp.k = "iso" \/ (timestamp.k = "text" /\ timestamp.text # ""))
    /\ LET r == get_current_session(timestamp, now)
       IN  SessionCall("get_current_session", << >>,
                       [timestamp |-> timestamp, now |-> now], r)

CalculateSessionStats(data) ==
    /\ op = "__init__"
    /\ LET r == calculate_session_stats(data)
       IN  SessionCall("calculate_session_stats", data, << >>, r)

FilterBySession(data, names) ==
    /\ op = "__init__"
    /\ LET r == filter_by_session(data, names)
       IN  SessionCall("filter_by_session", data, names, r)

FilterSessionTransitions(data, w) ==
    /\ op = "__init__"
    /\ LET r == filter_session_transitions(data, w[1], w[2])
       IN  SessionCall("filter_session_transitions", data, w, r)

\* main with --session: args.session.split(',') is never empty
MainFilterBySession(data, names) ==
    /\ op = "__init__"
    /\ names # << >>
    /\ LET r == main_filter_by_session(data, names)
       IN  SessionCall("main", data, names, r)

\* for attempt in range(self.max_retries): the iteration with attempt = n,
\* or the end of the loop and of the function
ForLoop(n) ==
    IF n < max_retries
    THEN /\ attempt' = n
         /\ pc' = "try"
         /\ UNCHANGED ret
    ELSE /\ pc' = "returned"
         /\ ret' = Return(None)
         /\ UNCHANGED attempt

\* fetch_data up to its loop: the cost check and the dataset range
FetchData(check_cost, response) ==
    /\ pc = "idle"
    /\ op' = "fetch_data"
    /\ cfg' = [check_cost |-> check_cost]
    /\ IF /\ check_cost
          /\ estimate_cost.estimated_cost_usd > COST_PROMPT_USD
          /\ lower(response) # <<"y">>
       THEN /\ pc' = "exit"
            /\ ret' = Raise("SystemExit")
            /\ UNCHANGED attempt
       ELSE ForLoop(0)
    /\ UNCHANGED <<validatorVars, envVars, arg, exc, log>>

\* the body of the try statement, and the handler up to its test
TryFetch(outcome) ==
    /\ pc = "try"
    /\ LET announced == Append(log, AttemptEvent(attempt))
       IN  CASE outcome = "ok" ->
                  /\ log' = Append(announced, SuccessEvent)
                  /\ pc' = "returned"
                  /\ ret' = Return(FetchResult)
                  /\ UNCHANGED exc
             [] outcome \in Exceptions ->
                  /\ log' = Append(announced, ErrorEvent(attempt, outcome))
                  /\ pc' = "except"
                  /\ exc' = Exception(outcome)
                  /\ UNCHANGED ret
             [] OTHER ->
                  /\ log' = announced
                  /\ pc' = "raised"
                  /\ ret' = Raise(outcome)
                  /\ UNCHANGED exc
    /\ UNCHANGED <<validatorVars, envVars, op, arg, cfg, attempt>>

\* the handler of an attempt that is not the last: the wait is announced
\* and time.sleep(self.retry_delay) is entered.  While the call waits, the
\* handler still holds the exception and the loop variable is unchanged.
Retry ==
    /\ pc = "except"
    /\ MayRetry(attempt)
    /\ log' = Append(log, SleepEvent(retry_delay))
    /\ pc' = "sleep"
    /\ UNCHANGED <<validatorVars, envVars, op, arg, cfg, ret, attempt, exc>>

\* the end of time.sleep(self.retry_delay).  When it returns, the handler
\* ends, which unbinds the exception, and the next iteration begins.  The
\* call sits in the handler: an exception that time.sleep raises is caught
\* by nothing and leaves fetch_data.
Sleep(outcome) ==
    /\ pc = "sleep"
    /\ exc' = None
    /\ IF outcome = "ok"
       THEN ForLoop(attempt + 1)
       ELSE /\ pc' = "raised"
            /\ ret' = Raise(outcome)
            /\ UNCHANGED attempt
    /\ UNCHANGED <<validatorVars, envVars, op, arg, cfg, log>>

\* raise, in the handler of the last attempt; leaving the handler unbinds
\* the exception
Reraise ==
    /\ pc = "except"
    /\ ~MayRetry(attempt)
    /\ log' = Append(log, FailedEvent)
    /\ pc' = "raised"
    /\ ret' = Raise(exc.type)
    /\ exc' = None
    /\ UNCHANGED <<validatorVars, envVars, op, arg, cfg, attempt>>

Next == \E data \in ValidateData : Validate(data)

NextChecks ==
    \/ \E data \in GapData : CheckTimestampGaps(data)
    \/ \E data \in DuplicateData : CheckDuplicates(data)
    \/ \E data \in PriceData : CheckPriceRange(data)
    \/ \E data \in CountData : CheckRecordCount(data)
    \/ \E data \in CompletenessData : CheckCompleteness(data)

NextFetch ==
    \/ \E check_cost \in BOOLEAN, response \in Responses : FetchData(check_cost, response)
    \/ \E outcome \in AttemptOutcomes : TryFetch(outcome)
    \/ Retry
    \/ \E outcome \in SleepOutcomes : Sleep(outcome)
    \/ Reraise

NextSession ==
    \/ \E ts \in Instants : IsInSession(ts)
    \/ \E timestamp \in Timestamps, now \in Instants \cup {None} :
           GetCurrentSession(timestamp, now)
    \/ \E data \in SessionData : CalculateSessionStats(data)
    \/ \E data \in SessionData, names \in SessionLists : FilterBySession(data, names)
    \/ \E data \in SessionData, names \in SessionLists : MainFilterBySession(data, names)
    \/ \E data \in TransitionData, w \in TransitionWindows :
           FilterSessionTransitions(data, w)

\* one validator instance validating several inputs
Spec == Init /\ [][Next]_vars

\* the check methods called directly
SpecChecks == Init /\ [][NextChecks]_vars

\* the session filter
SpecSession == InitSession /\ [][NextSession]_vars

\* one call of fetch_data on a new fetcher
SpecFetch == InitFetch /\ [][NextFetch]_vars

\* the call runs on: a try body and a handler end, and so does a time.sleep, by its
\* return or by an interrupt
FairSpecFetch == SpecFetch /\ WF_vars(NextFetch)

(***************************************************************************)
(* Claims                                                                  *)
(***************************************************************************)
\* the issues the last call appended to self.issues
Appended == SubSeq(issues, Len(issuesBefore) + 1, Len(issues))

CheckNames ==
    {"timestamp_gaps", "duplicates", "price_range", "record_count", "data_completeness"}

\* C1: the issue list is reset at the start of each validate() call: the
\* issues a call returns are exactly the issues its own five checks detect,
\* none from earlier calls on the same instance.
C1_IssuesResetEachCall ==
    (op = "validate" /\ arg # << >> /\ ret.kind = "return")
        => ret.value.issues =
               RunChecks(arg, << >>, schema, max_gap_seconds, price_outlier_std,
                         tz, libm).issues

\* C2: for every non-empty input validate() runs all five checks, whatever
\* a check finds, and the report is valid iff all five sub-reports are.
C2_AllFiveChecksRun ==
    (op = "validate" /\ arg # << >>)
        => /\ ret.kind = "return"
           /\ DOMAIN ret.value.checks = CheckNames
           /\ ret.value.checks.timestamp_gaps
                  = check_timestamp_gaps(arg, max_gap_seconds, tz).value
           /\ ret.value.checks.duplicates = check_duplicates(arg, tz).value
           /\ ret.value.checks.price_range
                  = check_price_range(arg, price_outlier_std, libm).value
           /\ ret.value.checks.record_count = check_record_count(arg, schema).value
           /\ ret.value.checks.data_completeness
                  = check_completeness(arg, schema).value
           /\ ret.value.valid <=> \A c \in CheckNames : ret.value.checks[c].valid

\* C3: validate() on an empty collection returns total_records = 0,
\* valid = false and an empty checks mapping, runs no check and appends
\* nothing to the issue list.
C3_EmptyShortCircuits ==
    (op = "validate" /\ arg = << >>)
        => /\ ret.kind = "return"
           /\ ret.value.total_records = 0
           /\ ret.value.valid = FALSE
           /\ DOMAIN ret.value.checks = {}
           /\ "issues" \notin DOMAIN ret.value
           /\ issues = issuesBefore

\* an empty input validated by an instance that already holds issues
C3_Witness ==
    /\ op = "validate"
    /\ arg = << >>
    /\ issuesBefore # << >>
    /\ ret.value.total_records = 0

\* the ET hour (UTC-5) of the instant ts, to the nanosecond
ExactETHour(ts) == ((ts.sec - 5 * 3600) \div 3600) % 24

\* the ET hour of the instant ts after its conversion to a float of
\* seconds and the rounding of that float to the microsecond
RoundedETHour(ts) ==
    ((FromTimestamp(ToInt(ts)).sec - 5 * 3600) \div 3600) % 24

\* the number of the three session tests that are true
TrueTests(r) == Cardinality({i \in 1..3 : r[i]})

\* C4: the three session windows partition the day: for a timestamp of ET
\* hour h exactly one of the tests for Asian, London and NY is true, with
\* Asian: h >= 18 or h < 2, London: 2 <= h < 8, NY: 8 <= h < 16.
C4_SessionsPartitionDay ==
    op = "is_in_session"
        => LET h == ExactETHour(cfg)
           IN  /\ TrueTests(ret.value) = 1
               /\ ret.value[1] <=> (h >= 18 \/ h < 2)
               /\ ret.value[2] <=> (2 <= h /\ h < 8)
               /\ ret.value[3] <=> (8 <= h /\ h < 16)

\* C4 as amended: with h the ET hour of the timestamp after its conversion
\* to a float of seconds and rounding to the microsecond, Asian is true iff h >= 18 or h < 2, London iff
\* 2 <= h < 8 and NY iff 8 <= h < 16; at most one test is true, and none is
\* for the hours 16 and 17.
C4_SessionWindows ==
    op = "is_in_session"
        => LET h == RoundedETHour(cfg)
           IN  /\ ret.value[1] <=> (h >= 18 \/ h < 2)
               /\ ret.value[2] <=> (2 <= h /\ h < 8)
               /\ ret.value[3] <=> (8 <= h /\ h < 16)
               /\ TrueTests(ret.value) <= 1
               /\ TrueTests(ret.value) = 0 <=> h \in {16, 17}

\* an instant of ET hour 17, in no session
C4_Witness ==
    /\ op = "is_in_session"
    /\ ExactETHour(cfg) = 17
    /\ RoundedETHour(cfg) = 17
    /\ TrueTests(ret.value) = 0

AllSessions == <<"Asian", "London", "NY">>

TsFields == <<"ts_event", "ts_recv", "timestamp">>

\* the first of ts_event, ts_recv, timestamp that is present and not null
FirstNonMissing(record) ==
    LET present == SelectSeq(TsFields,
                       LAMBDA f : f \in DOMAIN record /\ record[f] # None)
    IN  IF present = << >> THEN None ELSE record[present[1]]

\* the first of ts_event, ts_recv, timestamp that is present, not null and
\* not 0
FirstNonZero(record) ==
    LET present == SelectSeq(TsFields,
                       LAMBDA f : /\ f \in DOMAIN record
                                  /\ record[f] # None
                                  /\ record[f] # Ns(0, 0))
    IN  IF present = << >> THEN None ELSE record[present[1]]

\* C5: filter_by_session(records, ["Asian", "London", "NY"]) on a non-empty
\* input returns exactly the records that have a usable timestamp (the first
\* non-missing of ts_event, ts_recv, timestamp), in input order, each once.
C5_FullFilterKeepsUsable ==
    (op = "filter_by_session" /\ cfg = AllSessions /\ arg # << >>)
        => ret = Return(SelectSeq(arg, LAMBDA r : FirstNonMissing(r) # None))

\* C5 as amended: it returns, in input order and each once, exactly the
\* records whose timestamp (the first of ts_event, ts_recv, timestamp that is
\* neither missing, null nor 0) exists and has, rounded to the microsecond,
\* an ET hour other than 16 and 17.
C5_FullFilterKeepsSessionHours ==
    (op = "filter_by_session" /\ cfg = AllSessions /\ arg # << >>)
        => ret = Return(SelectSeq(arg,
                     LAMBDA r : /\ FirstNonZero(r) # None
                                /\ RoundedETHour(FirstNonZero(r)) \notin {16, 17}))

\* two records with timestamps, one kept and one dropped
C5_Witness ==
    /\ op = "filter_by_session"
    /\ cfg = AllSessions
    /\ Len(arg) = 2
    /\ FirstNonMissing(arg[1]) # None
    /\ FirstNonMissing(arg[2]) # None
    /\ "ts_event" \in DOMAIN arg[2] /\ arg[2]["ts_event"] = None
    /\ ret.kind = "return"
    /\ ret.value = <<arg[2]>>

\* seconds and microseconds since ET midnight, of ts after its conversion
\* to a float of seconds and the rounding of that float to the microsecond
TimeOfDay(ts) ==
    LET dt == FromTimestamp(ToInt(ts))
    IN  [sec |-> (dt.sec - 5 * 3600) % 86400, micro |-> dt.micro]

\* time of day t is at most before minutes before or after minutes after h:00
Within(t, h, before, after) ==
    /\ t.sec >= h * 3600 - before * 60
    /\ \/ t.sec < h * 3600 + after * 60
       \/ t.sec = h * 3600 + after * 60 /\ t.micro = 0

\* C6: filter_session_transitions keeps a record iff, for some transition
\* hour T in {2, 8, 16, 18} of the record's own ET day, its time of day is at
\* most minutes_before minutes before T or at most minutes_after minutes
\* after T; with 30 and 30 a record at 08:00 is kept, one at 08:31 is not.
C6_TransitionWindow ==
    op = "filter_session_transitions"
        => ret = Return(SelectSeq(arg,
                     LAMBDA r : /\ FirstNonZero(r) # None
                                /\ \E h \in {2, 8, 16, 18} :
                                       Within(TimeOfDay(FirstNonZero(r)), h, cfg[1], cfg[2])))

\* the pairs of timestamps, next to each other in ascending order, that are
\* more than max seconds apart
GapPairs(timestamps, max) ==
    LET S == Range(timestamps)
    IN  {p \in S \X S :
            /\ NsLess(p[1], p[2])
            /\ \A c \in S : ~(NsLess(p[1], c) /\ NsLess(c, p[2]))
            /\ LET d == NsDiff(p[2], p[1])
               IN  d.sec > max \/ (d.sec = max /\ d.nano > 0)}

\* C7: check_timestamp_gaps reports a gap for two consecutive sorted
\* timestamps iff they are strictly more than max_gap_minutes * 60 seconds
\* apart: 60 minutes apart at a maximum of 60 is no gap, 61 minutes is one;
\* total_gaps is the number of such pairs, one warning issue is appended per
\* gap, and the check is valid iff there is none, whatever the input order.
\* (With fewer than two timestamps the sub-report is the trivially valid one
\* and has no total_gaps.)
C7_GapsStrictlyAboveMaximum ==
    op = "check_timestamp_gaps"
        => LET timestamps == _extract_timestamps(arg)
               n == Cardinality(GapPairs(timestamps, max_gap_seconds))
           IN  /\ ret.kind = "return"
               /\ ret.value.valid <=> n = 0
               /\ issues = issuesBefore \o Appended
               /\ Len(Appended) = n
               /\ \A i \in 1..Len(Appended) :
                      /\ Appended[i].type = "timestamp_gap"
                      /\ Appended[i].severity = "warning"
               /\ "total_gaps" \in DOMAIN ret.value <=> Len(timestamps) >= 2
               /\ Len(timestamps) >= 2 => ret.value.total_gaps = n
               /\ (max_gap_seconds = 3600 /\ Range(arg) = Range(Series(2, 3600, 0, 100)))
                      => ret.value.total_gaps = 0 /\ ret.value.valid
               /\ (max_gap_seconds = 3600 /\ Range(arg) = Range(Series(2, 3660, 0, 100)))
                      => ret.value.total_gaps = 1 /\ ~ret.value.valid

\* two bars 61 minutes apart, the later one first, at a maximum of 60
C7_Witness ==
    /\ op = "check_timestamp_gaps"
    /\ max_gap_seconds = 3600
    /\ arg = Reverse(Series(2, 3660, 0, 100))
    /\ ret.value.total_gaps = 1
    /\ Len(Appended) = 1

\* the timestamps that occur more than once
DuplicateGroups(timestamps) == {t \in Range(timestamps) : Count(timestamps, t) > 1}

\* the position at which t first occurs
FirstAt(timestamps, t) ==
    CHOOSE i \in 1..Len(timestamps) :
        timestamps[i] = t /\ \A j \in 1..(i - 1) : timestamps[j] # t

\* the i-th duplicate group in order of first occurrence
NthGroup(timestamps, i) ==
    CHOOSE t \in DuplicateGroups(timestamps) :
        Cardinality({u \in DuplicateGroups(timestamps) :
                        FirstAt(timestamps, u) < FirstAt(timestamps, t)}) = i - 1

Min(a, b) == IF a < b THEN a ELSE b

\* C8: check_duplicates reports in duplicates_found the number of distinct
\* timestamps that occur more than once (not capped), appends one error
\* issue with the occurrence count for each of the first 10 groups at most,
\* and is valid iff there is no group; [100, 100, 200] gives one group of
\* count 2 and is invalid.
C8_DuplicateGroups ==
    op = "check_duplicates"
        => LET timestamps == _extract_timestamps(arg)
               groups == DuplicateGroups(timestamps)
           IN  /\ ret.kind = "return"
               /\ ret.value.duplicates_found = Cardinality(groups)
               /\ ret.value.valid <=> groups = {}
               /\ issues = issuesBefore \o Appended
               /\ Len(Appended) = Min(10, Cardinality(groups))
               /\ \A i \in 1..Len(Appended) :
                      /\ Appended[i].type = "duplicate_timestamp"
                      /\ Appended[i].severity = "error"
                      /\ Appended[i].count = Count(timestamps, NthGroup(timestamps, i))
               /\ timestamps = <<ToInt(Ns(0, 100)), ToInt(Ns(0, 100)), ToInt(Ns(0, 200))>>
                      => /\ ret.value.duplicates_found = 1
                         /\ Len(Appended) = 1
                         /\ Appended[1].count = 2
                         /\ ~ret.value.valid

\* more than 10 duplicate groups: all counted, 10 reported
C8_Witness ==
    /\ op = "check_duplicates"
    /\ ret.value.duplicates_found > 10
    /\ Len(Appended) = 10

\* the issues of one type among those appended
OfType(type) == SelectSeq(Appended, LAMBDA i : i.type = type)

\* x1 + ... + xn, exactly
RECURSIVE ExactTotal(_)
ExactTotal(xs) ==
    IF xs = << >> THEN Zero
    ELSE Only({ExactSum(s, xs[Len(xs)]) : s \in {ExactTotal(SubSeq(xs, 1, Len(xs) - 1))}})

\* the binary digits to which a computed statistic agrees with the exact one
AGREED_BITS == 45

\* |x - y| <= scale / 2^AGREED_BITS
Agree(x, y, scale) ==
    ~FloatLess(ExactProduct(scale, Number(FALSE, <<1>>, 0 - AGREED_BITS)),
               Absolute(ExactSum(x, Negate(y))))

\* m is, but for rounding, the mean of the prices: n * m = p1 + ... + pn
IsMeanOf(m, prices) ==
    Agree(ExactProduct(FromInteger(Len(prices)), m), ExactTotal(prices),
          ExactTotal([i \in 1..Len(prices) |-> Absolute(prices[i])]))

\* (p1 - m)^2 + ... + (pn - m)^2, exactly
SumOfSquares(prices, m) ==
    ExactTotal([i \in 1..Len(prices) |->
                   ExactProduct(ExactSum(prices[i], Negate(m)),
                                ExactSum(prices[i], Negate(m)))])

\* s is, but for rounding, the population standard deviation of the prices
\* about m: n * s^2 = (p1 - m)^2 + ... + (pn - m)^2
IsDeviationOf(s, prices, m) ==
    Agree(ExactProduct(FromInteger(Len(prices)), ExactProduct(s, s)),
          SumOfSquares(prices, m), SumOfSquares(prices, m))

\* the prices 100, 100, 100, 100, -5
C9_Example ==
    <<FromInteger(100), FromInteger(100), FromInteger(100), FromInteger(100),
      FromInteger(0 - 5)>>

\* C9: check_price_range is valid iff no extracted price is negative or
\* zero; each negative price gives one error issue, the first 10 at most,
\* zero prices are counted without an issue, and min, max, mean and standard
\* deviation are taken over all extracted prices; [100, 100, 100, 100, -5]
\* gives one negative_price issue and is invalid.
C9_PriceRange ==
    (op = "check_price_range" /\ ret.kind = "return")
        => LET prices == PricesOf(arg)
               negative == SelectSeq(prices, LAMBDA p : FloatLess(p, Zero))
               zero == SelectSeq(prices, LAMBDA p : p = Zero)
               r == ret.value
           IN  /\ r.valid <=> (negative = << >> /\ zero = << >>)
               /\ issues = issuesBefore \o Appended
               /\ \A i \in 1..Len(Appended) :
                      Appended[i].type \in {"price_outlier", "negative_price"}
               /\ Len(OfType("negative_price")) = Min(10, Len(negative))
               /\ \A i \in 1..Len(OfType("negative_price")) :
                      /\ OfType("negative_price")[i].severity = "error"
                      /\ OfType("negative_price")[i].price = negative[i]
               /\ prices # << >>
                      => /\ r.negative_prices = Len(negative)
                         /\ r.zero_prices = Len(zero)
                         /\ r.min_price \in Range(prices)
                         /\ \A i \in 1..Len(prices) : ~FloatLess(prices[i], r.min_price)
                         /\ r.max_price \in Range(prices)
                         /\ \A i \in 1..Len(prices) : ~FloatLess(r.max_price, prices[i])
                         /\ IsMeanOf(r.mean_price, prices)
                         /\ IsDeviationOf(r.std_dev, prices, r.mean_price)
               /\ prices = C9_Example
                      => /\ Len(OfType("negative_price")) = 1
                         /\ r.mean_price = FromInteger(79)
                         /\ r.std_dev = FromInteger(42)
                         /\ ~r.valid

\* more than 10 negative prices and a zero price: 10 issues, invalid
C9_Witness ==
    /\ op = "check_price_range"
    /\ ret.kind = "return"
    /\ "negative_prices" \in DOMAIN ret.value
    /\ ret.value.negative_prices > 10
    /\ ret.value.zero_prices = 1
    /\ Len(OfType("negative_price")) = 10
    /\ ~ret.value.valid

\* the required fields of the schema, as a set
Required == Range(_get_required_fields(schema))

\* the sampled records of the last call in which field f is absent or null
MissingIn(f) ==
    {i \in 1..Min(Len(arg), 100) : f \notin DOMAIN arg[i] \/ arg[i][f] = None}

\* the required fields missing in some sampled record
MissingFields == {f \in Required : MissingIn(f) # {}}

\* the sub-report and the issues of a completeness check over the first
\* min(n, 100) records
CompletenessOfSample ==
    /\ ret.kind = "return"
    /\ ret.value.valid <=> MissingFields = {}
    /\ "missing_fields" \in DOMAIN ret.value
    /\ DOMAIN ret.value.missing_fields = MissingFields
    /\ \A f \in MissingFields : ret.value.missing_fields[f] = Cardinality(MissingIn(f))
    /\ issues = issuesBefore \o Appended
    /\ Len(Appended) = Cardinality(MissingFields)
    /\ \A i \in 1..Len(Appended) :
           /\ Appended[i].type = "missing_field"
           /\ Appended[i].severity = "error"
           /\ Appended[i].field \in MissingFields
           /\ Appended[i].missing_count = Cardinality(MissingIn(Appended[i].field))
    /\ \A f \in MissingFields : \E i \in 1..Len(Appended) : Appended[i].field = f
    /\ (/\ schema = OHLCV_1H
        /\ Len(arg) >= 100
        /\ \A i \in 1..Len(arg) :
               /\ DOMAIN arg[i] = DOMAIN NoVolume
               /\ \A f \in DOMAIN arg[i] : arg[i][f] # None)
           => /\ Appended = <<[type |-> "missing_field", severity |-> "error",
                              field |-> "volume", missing_count |-> 100]>>
              /\ ~ret.value.valid

\* C10: check_completeness examines the first min(n, 100) records only:
\* missing_fields[f] counts the sampled records in which the required field
\* f is absent or null, one error issue is appended per missing field,
\* later records never matter, and the check is valid iff no required field
\* is missing in the sample; 100 or more "ohlcv-1h" records lacking only
\* volume give one issue, for volume, with missing_count 100.
C10_CompletenessOfSample == op = "check_completeness" => CompletenessOfSample

\* C10 as amended: the same for every non-empty record collection; on an
\* empty one the check is invalid, with the note "No data" and no issue.
C10_CompletenessOfNonEmptySample ==
    op = "check_completeness"
        => IF arg = << >>
           THEN /\ ret = Return([valid |-> FALSE, note |-> "No data"])
                /\ issues = issuesBefore
           ELSE CompletenessOfSample

\* more than 100 records that all lack volume alone
C10_Witness ==
    /\ op = "check_completeness"
    /\ schema = OHLCV_1H
    /\ Len(arg) > 100
    /\ \A i \in 1..Len(arg) : arg[i] = NoVolume
    /\ Len(Appended) = 1
    /\ Appended[1].field = "volume"
    /\ Appended[1].missing_count = 100

\* the requested list names a session other than Asian, London and NY
UnknownRequested == \E i \in 1..Len(cfg) : cfg[i] \notin {"Asian", "London", "NY"}

\* C11: session filtering fails fast on an unknown session name: wherever
\* the unknown name sits in the requested list and whatever the records
\* are, the call ends with the error (KeyError from filter_by_session, exit
\* from main) and returns no record.
C11_UnknownSessionFailsFast ==
    /\ (op = "filter_by_session" /\ UnknownRequested) => ret = Raise("KeyError")
    /\ (op = "main" /\ UnknownRequested) => ret = Raise("SystemExit")

\* the unknown name is last in the list and the first record is in the
\* session named before it
C11_Witness ==
    /\ op = "filter_by_session"
    /\ cfg = <<"NY", "Tokyo">>
    /\ Len(arg) = 2
    /\ Truthy(TsOf(arg[1]))
    /\ is_in_session(ToInt(TsOf(arg[1])), NY)
    /\ ret = Raise("KeyError")

\* the timestamp of each record of the last call
RecordTimestamps == [i \in 1..Len(arg) |-> FirstNonZero(arg[i])]

\* the record set of the last call is fully well-formed for the validator
WellFormed ==
    /\ arg # << >>
    /\ \A i \in 1..Len(arg) : \A f \in Required : f \in DOMAIN arg[i] /\ arg[i][f] # None
    /\ \A i \in 1..Len(arg) : RecordTimestamps[i] # None
    /\ \A i, j \in 1..Len(arg) : i # j => RecordTimestamps[i] # RecordTimestamps[j]
    /\ GapPairs(RecordTimestamps, max_gap_seconds) = {}
    /\ \A i \in 1..Len(arg) :
           PriceField(arg[i]) # "" => arg[i][PriceField(arg[i])] # None
    /\ LET prices == PricesOf(arg)
       IN  /\ \A i \in 1..Len(prices) : FloatLess(Zero, prices[i])
           /\ Len(prices) > 1
                  => \A i \in 1..Len(prices) :
                         ~IsOutlier(prices[i], Mean(prices),
                                    StdDev(prices, Mean(prices), libm), price_outlier_std)

\* C12: validate() on a fully well-formed record set of any size >= 1
\* returns valid = true and an empty issue list.
C12_WellFormedIsValid ==
    (op = "validate" /\ WellFormed)
        => /\ ret.kind = "return"
           /\ ret.value.valid
           /\ ret.value.issues = << >>

\* C13: check-level problems never abort validate(): for every non-empty
\* record collection, including records whose timestamp or price fields
\* are absent or null, validate() returns a report; records without a price
\* field are skipped by the price check, which returns its trivially valid
\* "no price data" result when no record yields a price.
C13_ChecksNeverAbort ==
    (op = "validate" /\ arg # << >>)
        => /\ ret.kind = "return"
           /\ DOMAIN ret.value.checks = CheckNames
           /\ (\A i \in 1..Len(arg) : PriceField(arg[i]) = "")
                  => ret.value.checks.price_range
                         = [valid |-> TRUE, note |-> "No price data to validate"]
           /\ LET priced == SelectSeq(arg, LAMBDA r : PriceField(r) # "")
              IN  (priced # << >> /\ \A i \in 1..Len(priced) :
                                        priced[i][PriceField(priced[i])] # None)
                      => /\ "min_price" \in DOMAIN ret.value.checks.price_range
                         /\ ret.value.checks.price_range.min_price
                                \in Range(PricesOf(priced))

\* C14: check_record_count always passes: for every schema and every record
\* collection the expected count is None, the sub-report is valid with
\* actual_count the number of records, and no issue is appended.
C14_RecordCountAlwaysPasses ==
    op = "check_record_count"
        => /\ ret.kind = "return"
           /\ ret.value.valid
           /\ ret.value.actual_count = Len(arg)
           /\ ret.value.expected_count = None
           /\ issues = issuesBefore

\* more than 100 records of the hourly schema
C14_Witness ==
    /\ op = "check_record_count"
    /\ schema = OHLCV_1H
    /\ Len(arg) > 100
    /\ ret.value.valid
    /\ ret.value.actual_count = Len(arg)

\* the last call of get_current_session took its instant in UTC: from the
\* clock, or from a text with the offset Z or +00:00
GivenInUTC ==
    \/ cfg.now # None
    \/ cfg.timestamp.k = "iso" /\ cfg.timestamp.utcoffset = 0

\* the instant that call was asked about
InstantAsked == IF cfg.now # None THEN cfg.now ELSE cfg.timestamp.instant

\* C15: the two session call sites agree with each other and with the
\* session table: for every UTC instant get_current_session returns the
\* session S iff is_in_session(instant, S) is true, and the session returned
\* is the one whose [start, end) window contains (utc_hour - 5) mod 24.
C15_CallSitesAgree ==
    (op = "get_current_session" /\ GivenInUTC)
        => /\ ret.kind = "return"
           /\ \A i \in 1..3 :
                  LET S == TradingSession[i]
                      h == ExactETHour(InstantAsked)
                  IN  /\ ret.value = S[1] <=> is_in_session(ToInt(InstantAsked), S)
                      /\ ret.value = S[1]
                             <=> IF S[2] < S[3] THEN S[2] <= h /\ h < S[3]
                                                ELSE h >= S[2] \/ h < S[3]

\* n * p - (p1 + ... + pn), exactly
ScaledDeviation(p, prices) ==
    ExactSum(ExactProduct(FromInteger(Len(prices)), p), Negate(ExactTotal(prices)))

\* |p - mean| > k * stddev for the mean and the population standard
\* deviation of the prices as real numbers, which for k >= 0 is
\* n * (n * p - S)^2 > k^2 * ((n * p1 - S)^2 + ... + (n * pn - S)^2)
\* with S the sum of the n prices, and for k < 0 that the prices differ
ExceedsExactly(p, prices, k) ==
    \/ k < 0 /\ \E i \in 1..Len(prices) : prices[i] # prices[1]
    \/ k >= 0 /\ FloatLess(ExactProduct(FromInteger(k * k),
                     ExactTotal([i \in 1..Len(prices) |->
                                    ExactProduct(ScaledDeviation(prices[i], prices),
                                                 ScaledDeviation(prices[i], prices))])),
                 ExactProduct(FromInteger(Len(prices)),
                              ExactProduct(ScaledDeviation(p, prices),
                                           ScaledDeviation(p, prices))))

\* what the claim says of one price, and of two or more when out are the
\* outliers among them
OutlierReport(prices, out) ==
    LET n == Len(prices)
        r == ret.value
        warned == OfType("price_outlier")
    IN  /\ n >= 1
        /\ n = 1 => /\ r.std_dev = Zero
                    /\ r.outliers = 0
                    /\ warned = << >>
                    /\ FloatLess(Zero, prices[1]) => r.valid
        /\ n >= 2 => /\ IsMeanOf(r.mean_price, prices)
                     /\ IsDeviationOf(r.std_dev, prices, r.mean_price)
                     /\ r.outliers = Len(out)
                     /\ Len(warned) = Min(10, Len(out))
                     /\ \A i \in 1..Len(warned) :
                            /\ warned[i].severity = "warning"
                            /\ warned[i].price = out[i]

\* C16: outlier detection in check_price_range: with exactly one price the
\* standard deviation is 0, no outlier is reported and the check is valid
\* when the price is positive; with two or more prices a price is an outlier
\* iff |price - mean| > price_outlier_std * stddev, with the population
\* standard deviation (divide by N); 'outliers' is the full count of such
\* prices and min(10, count) price_outlier warnings are appended.
C16_OutlierDetection ==
    (op = "check_price_range" /\ ret.kind = "return" /\ "outliers" \in DOMAIN ret.value)
        => OutlierReport(PricesOf(arg),
               SelectSeq(PricesOf(arg),
                   LAMBDA p : ExceedsExactly(p, PricesOf(arg), price_outlier_std)))

\* C16 as amended: the same, with the test made in double precision on the
\* mean and the standard deviation that the sub-report carries: a price is
\* an outlier iff the double abs(price - mean) is above the double
\* price_outlier_std * stddev.
C16_OutlierDetectionInDoubles ==
    (op = "check_price_range" /\ ret.kind = "return" /\ "outliers" \in DOMAIN ret.value)
        => OutlierReport(PricesOf(arg),
               SelectSeq(PricesOf(arg),
                   LAMBDA p : FloatLess(FloatTimes(FromInteger(price_outlier_std),
                                                   ret.value.std_dev),
                                        Absolute(FloatSub(p, ret.value.mean_price)))))

\* the prices 4, 4, 4, 7, 4 at a threshold of 2: as real numbers the mean is
\* 4.6 and the standard deviation 1.2, and 7 is 2.4 from the mean, which is
\* not above 2 * 1.2; the check reports 7
C16_Witness ==
    /\ op = "check_price_range"
    /\ ret.kind = "return"
    /\ price_outlier_std = 2
    /\ PricesOf(arg) = <<FromInteger(4), FromInteger(4), FromInteger(4),
                         FromInteger(7), FromInteger(4)>>
    /\ ~ExceedsExactly(FromInteger(7), PricesOf(arg), 2)
    /\ ret.value.outliers = 1
    /\ Len(OfType("price_outlier")) = 1
    /\ OfType("price_outlier")[1].price = FromInteger(7)

\* the place of an issue type in the order of detection
TypeRank(type) ==
    CASE type = "timestamp_gap" -> 1
      [] type = "duplicate_timestamp" -> 2
      [] type = "price_outlier" -> 3
      [] type = "negative_price" -> 4
      [] type = "unexpected_record_count" -> 5
      [] type = "missing_field" -> 6

\* C17: within one validate() run the issue list is append-only and in
\* detection order: the list after the run has the list before it as a
\* prefix, and in the returned list every timestamp_gap issue precedes
\* every duplicate_timestamp issue, which precede every price_outlier
\* issue, then every negative_price issue, then every missing_field issue.
C17_IssuesInDetectionOrder ==
    (op = "validate" /\ arg # << >> /\ ret.kind = "return")
        => /\ Len(issues) >= Len(issuesBefore)
           /\ SubSeq(issues, 1, Len(issuesBefore)) = issuesBefore
           /\ ret.value.issues = issues
           /\ \A i, j \in 1..Len(ret.value.issues) :
                  i < j => TypeRank(ret.value.issues[i].type)
                              <= TypeRank(ret.value.issues[j].type)

\* the records of the last call that fall in the i-th session: their
\* timestamp (the first of ts_event, ts_recv, timestamp that is neither
\* missing, null nor 0) has an ET hour in the session's window
FallIn(i) ==
    {k \in 1..Len(arg) :
        /\ FirstNonZero(arg[k]) # None
        /\ LET h == RoundedETHour(FirstNonZero(arg[k]))
           IN  CASE i = 1 -> h >= 18 \/ h < 2
                 [] i = 2 -> 2 <= h /\ h < 8
                 [] i = 3 -> 8 <= h /\ h < 16}

\* the sum of the volume field over the records at the places K that have it
RECURSIVE VolumeOver(_)
VolumeOver(K) ==
    IF K = {} THEN 0
    ELSE LET k == CHOOSE x \in K : TRUE
         IN  (IF "volume" \in DOMAIN arg[k] THEN arg[k].volume.v ELSE 0)
                 + VolumeOver(K \ {k})

\* C18: calculate_session_stats counts each record in at most one session:
\* for each session, count is the number of records with a usable timestamp
\* that fall in it, volume the sum of the volume field over those that have
\* it, trades the number of those with a size field, and percentage is
\* count / (sum of the three counts) * 100, all three 0 without a division
\* error when the sum is 0, empty input included.  (A counted record whose
\* volume is null has no sum: the call raises TypeError.)
C18_SessionStats ==
    op = "calculate_session_stats"
        => IF \E k \in FallIn(1) \cup FallIn(2) \cup FallIn(3) :
                  "volume" \in DOMAIN arg[k] /\ arg[k].volume = None
           THEN ret = Raise("TypeError")
           ELSE LET total == Cardinality(FallIn(1) \cup FallIn(2) \cup FallIn(3))
                IN  /\ ret.kind = "return"
                    /\ DOMAIN ret.value = {"Asian", "London", "NY"}
                    /\ \A k \in 1..Len(arg) :
                           Cardinality({i \in 1..3 : k \in FallIn(i)}) <= 1
                    /\ Cardinality(FallIn(1)) + Cardinality(FallIn(2))
                           + Cardinality(FallIn(3)) = total
                    /\ \A i \in 1..3 :
                           LET st == ret.value[AllSessions[i]]
                           IN  /\ st.count = Cardinality(FallIn(i))
                               /\ st.volume = VolumeOver(FallIn(i))
                               /\ st.trades
                                      = Cardinality({k \in FallIn(i) : "size" \in DOMAIN arg[k]})
                               /\ IF total = 0
                                  THEN st.percentage = Zero
                                  ELSE st.percentage
                                           = FloatTimes(TrueDivide(FALSE, Digits(st.count),
                                                                   <<total>>),
                                                        FromInteger(100))

\* two records in different sessions, one with a volume and one with a size
C18_Witness ==
    /\ op = "calculate_session_stats"
    /\ ret.kind = "return"
    /\ Len(arg) = 2
    /\ ret.value["Asian"].count = 1
    /\ ret.value["Asian"].volume = 3
    /\ ret.value["London"].trades = 1
    /\ ret.value["London"].percentage = FromInteger(50)

\* entries of the log of one kind
Events(kind) == { i \in DOMAIN log : log[i].ev = kind }

Attempts == Cardinality(Events("attempt"))

Failures == Cardinality(Events("error"))

Waits == Cardinality(Events("sleep"))

Finished == pc \in {"returned", "raised", "exit"}

\* what holds of a fetch_data call at every point of its run
C19_RetryInvariant ==
    op = "fetch_data" =>
        /\ Attempts <= 3
        /\ Waits <= 2
        /\ \A i \in Events("sleep") :
               /\ log[i].seconds = 2
               /\ i > 1 /\ log[i - 1].ev = "error"
        /\ Waits = Failures - (IF pc = "except" \/ Failures = 3 THEN 1 ELSE 0)
        /\ pc = "sleep" =>
               /\ log[Len(log)].ev = "sleep"
               /\ exc # None /\ log[Len(log) - 1] = ErrorEvent(attempt, exc.type)
        /\ \A i \in Events("attempt") : log[i].n = Cardinality({ j \in Events("attempt") : j <= i })
        /\ Events("success") # {} =>
               /\ pc = "returned"
               /\ Events("success") = {Len(log)}
               /\ Attempts = Failures + 1
        /\ pc = "returned" =>
               /\ ret = Return(FetchResult)
               /\ Events("success") # {}
        /\ Failures = 3 /\ pc # "except" =>
               /\ pc = "raised"
               /\ \E i \in Events("error") : log[i].n = 3 /\ ret = Raise(log[i].exc)
        /\ pc = "raised" /\ ret.exc \in Exceptions => Failures = 3
        /\ pc = "raised" /\ ret.exc \in BaseExceptions =>
               /\ Failures < 3
               /\ Events("success") = {} /\ Events("failed") = {}
               /\ log[Len(log)].ev \in {"attempt", "sleep"}

\* C19: fetch_data makes at most 3 attempts; it returns the result of the
\* first attempt that succeeds and makes no attempt after it; it waits the
\* 2 seconds after each failed attempt except the third, at most twice; after
\* the third failure in a row it raises that failure again and returns
\* nothing; and a call that has begun its attempts ends in one of these
\* ways, or by an exception that is no failure of an attempt (an interrupt of
\* a try body or of a wait), which ends the call where it occurs.
C19_RetryLoop ==
    /\ []C19_RetryInvariant
    /\ [][Finished => UNCHANGED <<pc, ret, log>>]_vars
    /\ (pc \in {"try", "except", "sleep"}) ~> (pc \in {"returned", "raised"})

\* three failed attempts, two waits, the third failure raised
C19_Witness ==
    /\ op = "fetch_data"
    /\ pc = "raised"
    /\ Attempts = 3 /\ Failures = 3 /\ Waits = 2
    /\ ret = Raise("ValueError")
    /\ log[2].exc = "ConnectionError"

\* C20: filter_by_session ends without error for every record list and
\* every list of valid session names, and returns the empty list for the
\* empty record list.
C20_FilterNeverFails ==
    (op \in {"filter_by_session", "main"} /\ ~UnknownRequested) =>
        /\ ret.kind = "return"
        /\ arg = << >> => ret = Return(<< >>)

====
